---- MODULE Spec2Model ----
(***************************************************************************)
(* Model of the reconstruction and ranking core of playerstreamlit.py:     *)
(*   - calculate_player_minutes            (playing time per player)       *)
(*   - calculate_primary_positions_across_matches (position stints)        *)
(*   - summarize_position_minutes          (primary / secondary position)  *)
(*   - the percentile helpers of the Dashboard, Percentiles and            *)
(*     Dashboard2 tabs.                                                    *)
(*                                                                         *)
(* Time.  Event timestamps (startTimeMs) are integers in milliseconds.     *)
(* calculate_player_minutes works on time_ms / 1000 / 60; the model keeps  *)
(* such a minute value as the exact numerator over the fixed denominator   *)
(* MsPerMinute, so the literal minute 45 of the code is 45 * MsPerMinute.  *)
(* Percentiles are exact rationals [num, den] with den > 0.                *)
(***************************************************************************)
EXTENDS Integers, Sequences, FiniteSets, TLC

\* ------------------------------------------------------------------------
\* Bounds of the model
\* ------------------------------------------------------------------------
MaxEvents == 3
MaxSeasonEvents == 4
MaxCohort == 3
MaxValue == 3
MaxPositions == 4
MaxPlayers == 2
MaxMatches == 3

\* ------------------------------------------------------------------------
\* Values of the program
\* ------------------------------------------------------------------------
\* Python's None: an absent dictionary key, an absent timestamp, a suspended stint.
None == -1

MsPerMinute == 60000

POSITION_BASE_TYPE == 18
PLAYER_DETAILED_POSITION_SUBTYPE == 1800
PLAYER_POSITION_CHANGE_SUBTYPE == 1801
PERIOD_END_BASE_TYPE == 14
PERIOD_START_SUBTYPE == 1400
PERIOD_END_SUBTYPE == 1401
SUBSTITUTION_BASE_TYPE == 16
SUB_OUT_SUBTYPE == 1600
SUB_IN_SUBTYPE == 1601

Parts == {1, 2}

\* An event record of the match file; playerName "" and positionTypeName ""
\* stand for a missing (falsy) field.
Ev(b, s, pl, part, t, pos) ==
    [baseTypeId |-> b, subTypeId |-> s, playerName |-> pl, partId |-> part,
     startTimeMs |-> t, positionTypeName |-> pos]

PeriodStartEv(part, t) == Ev(14, 1400, "", part, t, "")
PeriodEndEv(part, t) == Ev(14, 1401, "", part, t, "")
SubInEv(pl, part, t) == Ev(16, 1601, pl, part, t, "")
SubOutEv(pl, part, t) == Ev(16, 1600, pl, part, t, "")
RedCardEv(pl, sub, part, t) == Ev(15, sub, pl, part, t, "")
PositionEv(pl, sub, pos, part, t) == Ev(18, sub, pl, part, t, pos)

Min(n) == n * MsPerMinute

\* Sequences over S of length at most n.
SeqsUpTo(S, n) == UNION {[1..k -> S] : k \in 0..n}

RECURSIVE SumSeq(_)
SumSeq(s) == IF s = <<>> THEN 0 ELSE Head(s) + SumSeq(Tail(s))

\* ------------------------------------------------------------------------
\* calculate_player_minutes
\* ------------------------------------------------------------------------
\* time_ms / 1000 / 60 if time_ms else 0   (numerator over MsPerMinute)
TimeMinutes(e) ==
    IF e.startTimeMs = None \/ e.startTimeMs = 0 THEN 0 ELSE e.startTimeMs

\* First loop: period_starts / period_ends, a later marker overwrites an earlier one.
RECURSIVE FindPeriodTimes(_, _, _)
FindPeriodTimes(events, subType, acc) ==
    IF events = <<>> THEN acc
    ELSE LET e == Head(events)
             acc2 == IF e.baseTypeId = 14 /\ e.subTypeId = subType
                     THEN [acc EXCEPT ![e.partId] = TimeMinutes(e)]
                     ELSE acc
         IN FindPeriodTimes(Tail(events), subType, acc2)

NoPeriods == [part \in Parts |-> None]

\* Second loop: substitutions[player] is the list of the player's in/out records
\* in event order.
RECURSIVE FindSubstitutions(_, _)
FindSubstitutions(events, player) ==
    IF events = <<>> THEN <<>>
    ELSE LET e == Head(events)
             rest == FindSubstitutions(Tail(events), player)
         IN IF e.baseTypeId = 16 /\ e.playerName = player /\ e.subTypeId = 1601
            THEN <<[type |-> "in", time |-> TimeMinutes(e), part_id |-> e.partId]>> \o rest
            ELSE IF e.baseTypeId = 16 /\ e.playerName = player /\ e.subTypeId = 1600
            THEN <<[type |-> "out", time |-> TimeMinutes(e), part_id |-> e.partId]>> \o rest
            ELSE rest

\* Third loop: red_cards[player], a later card overwrites an earlier one.
NoCard == [time |-> None, part_id |-> None]

RECURSIVE FindRedCard(_, _, _)
FindRedCard(events, player, acc) ==
    IF events = <<>> THEN acc
    ELSE LET e == Head(events)
             acc2 == IF e.baseTypeId = 15 /\ e.subTypeId \in {1501, 1502}
                        /\ e.playerName = player
                     THEN [time |-> TimeMinutes(e), part_id |-> e.partId]
                     ELSE acc
         IN FindRedCard(Tail(events), player, acc2)

\* all_players: every non-empty playerName of the match.
AllPlayers(events) ==
    {events[i].playerName : i \in {j \in DOMAIN events : events[j].playerName # ""}}

\* list.sort(key=lambda x: x['time']): stable insertion by the time key.
RECURSIVE InsertByTime(_, _)
InsertByTime(sorted, x) ==
    IF sorted = <<>> THEN <<x>>
    ELSE IF Head(sorted).time <= x.time
         THEN <<Head(sorted)>> \o InsertByTime(Tail(sorted), x)
         ELSE <<x>> \o sorted

\* Variant: the records stay in event order.
SortByTimeKeepsOrder(s) == s

RECURSIVE SortByTime(_)
SortByTime(s) ==
    IF s = <<>> THEN <<>>
    ELSE InsertByTime(SortByTime(SubSeq(s, 1, Len(s) - 1)), s[Len(s)])

\* period_starts.get(part_id, 0 if part_id == 1 else 45)
PeriodStart(starts, part) ==
    IF starts[part] # None THEN starts[part] ELSE IF part = 1 THEN 0 ELSE Min(45)

\* period_ends.get(part_id, 45 if part_id == 1 else 90)
PeriodEnd(ends, part) ==
    IF ends[part] # None THEN ends[part] ELSE IF part = 1 THEN Min(45) ELSE Min(90)

\* First 'in' record of the part, else the period start.
RECURSIVE FirstIn(_, _)
FirstIn(subs, part) ==
    IF subs = <<>> THEN None
    ELSE IF Head(subs).part_id = part /\ Head(subs).type = "in" THEN Head(subs).time
    ELSE FirstIn(Tail(subs), part)

PlayerEntered(subs, part, start) ==
    IF FirstIn(subs, part) = None THEN start ELSE FirstIn(subs, part)

\* First 'out' record of the part strictly after the entry.
RECURSIVE FirstOut(_, _, _)
FirstOut(subs, part, entered) ==
    IF subs = <<>> THEN None
    ELSE IF Head(subs).part_id = part /\ Head(subs).type = "out" /\ Head(subs).time > entered
         THEN Head(subs).time
    ELSE FirstOut(Tail(subs), part, entered)

PlayerLeft(subs, card, part, entered, end) ==
    LET out == FirstOut(subs, part, entered)
        afterCard == IF card.part_id = part /\ card.time > entered
                        /\ (out = None \/ card.time < out)
                     THEN card.time ELSE out
    IN IF afterCard = None THEN end ELSE afterCard

\* total_minutes += player_left - player_entered, when player_entered < player_left
Credit(entered, left) == IF entered < left THEN left - entered ELSE 0

\* ------------------------------------------------------------------------
\* calculate_primary_positions_across_matches, summarize_position_minutes
\* ------------------------------------------------------------------------
\* map_position_to_nl: POSITION_MAP_NL.get(str(raw).strip().upper(), raw)
map_position_to_nl(raw) ==
    CASE raw \in {"CB", "LCB", "RCB", " cb"} -> "CV"
      [] raw \in {"LW", "LWF", "LAMF"} -> "LB"
      [] raw = "LB" -> "LV"
      [] raw \in {"CF", "LCF", "RCF"} -> "SP"
      [] OTHER -> raw

\* str.strip() on the names of the model.
Strip(name) == IF name \in {" ", "  "} THEN "" ELSE name

\* The filter of lines 506-511.
IsPositionUpdate(e) ==
    e.baseTypeId = POSITION_BASE_TYPE
    /\ e.subTypeId \in {PLAYER_DETAILED_POSITION_SUBTYPE, PLAYER_POSITION_CHANGE_SUBTYPE}

IsPeriodMarker(e) ==
    e.baseTypeId = PERIOD_END_BASE_TYPE
    /\ e.subTypeId \in {PERIOD_START_SUBTYPE, PERIOD_END_SUBTYPE}

IsSubstitution(e) ==
    e.baseTypeId = SUBSTITUTION_BASE_TYPE /\ e.subTypeId \in {SUB_OUT_SUBTYPE, SUB_IN_SUBTYPE}

Keep(e) == IsPositionUpdate(e) \/ IsPeriodMarker(e) \/ IsSubstitution(e)

RECURSIVE FilterEvents(_)
FilterEvents(events) ==
    IF events = <<>> THEN <<>>
    ELSE IF Keep(Head(events)) THEN <<Head(events)>> \o FilterEvents(Tail(events))
    ELSE FilterEvents(Tail(events))

\* e.get('startTimeMs', 0) or 0
EventTimeMs(e) == IF e.startTimeMs = None THEN 0 ELSE e.startTimeMs

\* list.sort(key=lambda x: x.get('startTimeMs', 0) or 0): stable.
RECURSIVE InsertEvent(_, _)
InsertEvent(sorted, e) ==
    IF sorted = <<>> THEN <<e>>
    ELSE IF EventTimeMs(Head(sorted)) <= EventTimeMs(e)
         THEN <<Head(sorted)>> \o InsertEvent(Tail(sorted), e)
         ELSE <<e>> \o sorted

\* Variant: the filtered events stay in input order.
SortEventsKeepsOrder(s) == s

RECURSIVE SortEvents(_)
SortEvents(s) ==
    IF s = <<>> THEN <<>>
    ELSE InsertEvent(SortEvents(SubSeq(s, 1, Len(s) - 1)), s[Len(s)])

\* Variant: the guard does not look at the position label.
ValidPositionUpdateAnyLabel(e) ==
    /\ e.playerName # ""
    /\ e.playerName # "NOT_APPLICABLE"
    /\ e.playerName # "Unknown"
    /\ Strip(e.playerName) # ""

\* The guard of line 527.
ValidPositionUpdate(e) ==
    /\ e.playerName # ""
    /\ e.playerName # "NOT_APPLICABLE"
    /\ e.playerName # "Unknown"
    /\ Strip(e.playerName) # ""
    /\ e.positionTypeName # ""
    /\ e.positionTypeName # "UNKNOWN"

\* An entry of current_player_position; tracked = FALSE is an absent key.
Untracked == [tracked |-> FALSE, position_name |-> "", start_time |-> None]

\* player_position_durations_ms[p][pos] += d on a dict kept in insertion order.
RECURSIVE HasPos(_, _)
HasPos(pos_map, pos) ==
    IF pos_map = <<>> THEN FALSE
    ELSE Head(pos_map).pos = pos \/ HasPos(Tail(pos_map), pos)

\* Variant: = instead of +=.
AddToPosMapOverwrite(pos_map, pos, d) ==
    IF HasPos(pos_map, pos)
    THEN [i \in DOMAIN pos_map |->
            IF pos_map[i].pos = pos THEN [pos |-> pos, dur |-> d] ELSE pos_map[i]]
    ELSE Append(pos_map, [pos |-> pos, dur |-> d])

AddToPosMap(pos_map, pos, d) ==
    IF HasPos(pos_map, pos)
    THEN [i \in DOMAIN pos_map |->
            IF pos_map[i].pos = pos THEN [pos |-> pos, dur |-> pos_map[i].dur + d]
            ELSE pos_map[i]]
    ELSE Append(pos_map, [pos |-> pos, dur |-> d])

\* duration = t - start_time; added only if the stint is active and duration > 0.
CloseStint(pos_map, info, t) ==
    IF info.tracked /\ info.start_time # None /\ t - info.start_time > 0
    THEN AddToPosMap(pos_map, info.position_name, t - info.start_time)
    ELSE pos_map

\* Variant: the last maximum in dict order.
RECURSIVE MaxItemLast(_, _)
MaxItemLast(pos_map, best) ==
    IF pos_map = <<>> THEN best
    ELSE MaxItemLast(Tail(pos_map),
                     IF Head(pos_map).dur >= best.dur THEN Head(pos_map) ELSE best)

\* max(pos_map.items(), key=lambda kv: kv[1])[0]: the first maximum in dict order.
RECURSIVE MaxItem(_, _)
MaxItem(pos_map, best) ==
    IF pos_map = <<>> THEN best
    ELSE MaxItem(Tail(pos_map), IF Head(pos_map).dur > best.dur THEN Head(pos_map) ELSE best)

PrimaryOf(pos_map) ==
    IF pos_map = <<>> THEN "N/A" ELSE MaxItem(Tail(pos_map), Head(pos_map)).pos

\* sorted(pos_map.items(), key=lambda kv: kv[1], reverse=True): stable, descending.
RECURSIVE InsertDesc(_, _)
InsertDesc(sorted, x) ==
    IF sorted = <<>> THEN <<x>>
    ELSE IF Head(sorted).dur >= x.dur
         THEN <<Head(sorted)>> \o InsertDesc(Tail(sorted), x)
         ELSE <<x>> \o sorted

RECURSIVE SortDesc(_)
SortDesc(s) ==
    IF s = <<>> THEN <<>>
    ELSE InsertDesc(SortDesc(SubSeq(s, 1, Len(s) - 1)), s[Len(s)])

\* One entry of summarize_position_minutes; minutes are kept as ms / 60000.0
\* numerators, secondary_positions as the list that is joined with " / ".
Summary(pos_map) ==
    LET sorted_items == SortDesc(pos_map)
        n == Len(sorted_items)
    IN [primary_minutes |-> IF n >= 1 THEN sorted_items[1].dur ELSE 0,
        secondary_positions |->
            (IF n >= 2 THEN <<sorted_items[2].pos>> ELSE <<>>)
            \o (IF n >= 3 THEN <<sorted_items[3].pos>> ELSE <<>>),
        secondary_minutes |->
            (IF n >= 2 THEN sorted_items[2].dur ELSE 0)
            + (IF n >= 3 THEN sorted_items[3].dur ELSE 0)]

\* The tracker state the handlers work on: cpp is current_player_position,
\* durs is player_position_durations_ms.
Tracker(cpp, durs) == [cpp |-> cpp, durs |-> durs]

\* Lines 523-539: a position update.
\* Variant: the closed stint is credited to the new position.
OnPositionUpdateCreditsNew(st, ev) ==
    IF ValidPositionUpdate(ev)
    THEN Tracker(
           [st.cpp EXCEPT ![ev.playerName] =
               [tracked |-> TRUE,
                position_name |-> map_position_to_nl(ev.positionTypeName),
                start_time |-> EventTimeMs(ev)]],
           [st.durs EXCEPT ![ev.playerName] =
               CloseStint(@, [st.cpp[ev.playerName] EXCEPT
                                 !.position_name = map_position_to_nl(ev.positionTypeName)],
                          EventTimeMs(ev))])
    ELSE st

OnPositionUpdate(st, ev) ==
    IF ValidPositionUpdate(ev)
    THEN Tracker(
           [st.cpp EXCEPT ![ev.playerName] =
               [tracked |-> TRUE,
                position_name |-> map_position_to_nl(ev.positionTypeName),
                start_time |-> EventTimeMs(ev)]],
           [st.durs EXCEPT ![ev.playerName] =
               CloseStint(@, st.cpp[ev.playerName], EventTimeMs(ev))])
    ELSE st

\* Lines 541-545: a period start resumes the suspended stints.
OnPeriodStart(st, ev) ==
    Tracker(
      [p \in DOMAIN st.cpp |->
          IF st.cpp[p].tracked /\ st.cpp[p].start_time = None
          THEN [st.cpp[p] EXCEPT !.start_time = EventTimeMs(ev)]
          ELSE st.cpp[p]],
      st.durs)

\* Variant: the period end closes the active stints and discards them.
OnPeriodEndDiscards(st, ev) ==
    Tracker(
      [p \in DOMAIN st.cpp |->
          IF st.cpp[p].tracked /\ st.cpp[p].start_time # None
          THEN Untracked
          ELSE st.cpp[p]],
      [p \in DOMAIN st.durs |-> CloseStint(st.durs[p], st.cpp[p], EventTimeMs(ev))])

\* Lines 547-555: a period end closes and suspends the active stints.
OnPeriodEnd(st, ev) ==
    Tracker(
      [p \in DOMAIN st.cpp |->
          IF st.cpp[p].tracked /\ st.cpp[p].start_time # None
          THEN [st.cpp[p] EXCEPT !.start_time = None]
          ELSE st.cpp[p]],
      [p \in DOMAIN st.durs |-> CloseStint(st.durs[p], st.cpp[p], EventTimeMs(ev))])

\* Variant: the sub-out closes the stint but leaves the player in the map.
OnSubOutKeepsPlayer(st, ev) ==
    IF ev.playerName # "" /\ ev.playerName \in DOMAIN st.cpp /\ st.cpp[ev.playerName].tracked
    THEN Tracker(st.cpp,
                 [st.durs EXCEPT ![ev.playerName] =
                     CloseStint(@, st.cpp[ev.playerName], EventTimeMs(ev))])
    ELSE st

\* Lines 557-567: a sub-out closes the player's stint and deletes the player.
OnSubOut(st, ev) ==
    IF ev.playerName # "" /\ ev.playerName \in DOMAIN st.cpp /\ st.cpp[ev.playerName].tracked
    THEN Tracker(
           [st.cpp EXCEPT ![ev.playerName] = Untracked],
           [st.durs EXCEPT ![ev.playerName] =
               CloseStint(@, st.cpp[ev.playerName], EventTimeMs(ev))])
    ELSE st

\* Variant: the remaining stints are closed but the dict is not cleared.
OnMatchEndKeepsPositions(st, evs) ==
    IF evs # <<>>
    THEN Tracker(
           st.cpp,
           [p \in DOMAIN st.durs |->
               CloseStint(st.durs[p], st.cpp[p], EventTimeMs(evs[Len(evs)]))])
    ELSE st

\* Variant: the remaining stints are dropped without being closed.
OnMatchEndNoClose(st, evs) ==
    IF evs # <<>>
    THEN Tracker([p \in DOMAIN st.cpp |-> Untracked], st.durs)
    ELSE st

\* Lines 569-577: close the remaining stints at the time of the last event.
OnMatchEnd(st, evs) ==
    IF evs # <<>>
    THEN Tracker(
           [p \in DOMAIN st.cpp |-> Untracked],
           [p \in DOMAIN st.durs |->
               CloseStint(st.durs[p], st.cpp[p], EventTimeMs(evs[Len(evs)]))])
    ELSE st

\* The body of the loop of line 518 for one event.
OnEvent(st, ev) ==
    IF IsPositionUpdate(ev) THEN OnPositionUpdate(st, ev)
    ELSE IF ev.baseTypeId = PERIOD_END_BASE_TYPE /\ ev.subTypeId = PERIOD_START_SUBTYPE
    THEN OnPeriodStart(st, ev)
    ELSE IF ev.baseTypeId = PERIOD_END_BASE_TYPE /\ ev.subTypeId = PERIOD_END_SUBTYPE
    THEN OnPeriodEnd(st, ev)
    ELSE IF ev.baseTypeId = SUBSTITUTION_BASE_TYPE /\ ev.subTypeId = SUB_OUT_SUBTYPE
    THEN OnSubOut(st, ev)
    ELSE st

\* ------------------------------------------------------------------------
\* Percentile helpers
\* ------------------------------------------------------------------------
Rat(n, d) == [num |-> n, den |-> d]
RLeq(a, b) == a.num * b.den <= b.num * a.den
REq(a, b) == a.num * b.den = b.num * a.den
RMin(a, b) == IF RLeq(a, b) THEN a ELSE b
RMax(a, b) == IF RLeq(a, b) THEN b ELSE a

\* A Python float of the statistics: num / den * Giga^e9, den > 0.  The exponent
\* keeps a division by the guard 1e-9 exact.
Giga == 1000000000
Num(n, d, x) == [num |-> n, den |-> d, e9 |-> x]
Whole(n) == Num(n, 1, 0)
Epsilon == Num(1, 1, -1)

\* floor(y / Giga^k) and ceiling(x / Giga^k)
RECURSIVE Down(_, _)
Down(y, k) == IF k = 0 THEN y ELSE Down(y \div Giga, k - 1)
RECURSIVE Up(_, _)
Up(x, k) == IF k = 0 THEN x ELSE Up((x + Giga - 1) \div Giga, k - 1)

\* a <= b, a < b, a == b, a > 0 of two floats
NumLeq(a, b) ==
    LET x == a.num * b.den
        y == b.num * a.den
        k == a.e9 - b.e9
    IN IF k = 0 THEN x <= y
       ELSE IF k > 0 THEN x <= Down(y, k)
       ELSE Up(x, 0 - k) <= y
NumLt(a, b) == ~NumLeq(b, a)
NumEq(a, b) == NumLeq(a, b) /\ NumLeq(b, a)
\* max(a, b): the first argument unless the second is greater
NumMax(a, b) == IF NumLt(a, b) THEN b ELSE a
NumMul(a, b) == Num(a.num * b.num, a.den * b.den, a.e9 + b.e9)
\* a / b for b > 0
NumDiv(a, b) == Num(a.num * b.den, a.den * b.num, a.e9 - b.e9)

\* sorted(values)
RECURSIVE InsertAsc(_, _)
InsertAsc(sorted, x) ==
    IF sorted = <<>> THEN <<x>>
    ELSE IF NumLeq(Head(sorted), x) THEN <<Head(sorted)>> \o InsertAsc(Tail(sorted), x)
    ELSE <<x>> \o sorted

RECURSIVE Sorted(_)
Sorted(s) == IF s = <<>> THEN <<>> ELSE InsertAsc(Sorted(Tail(s)), Head(s))

\* sum(1 for v in sorted_values if v < target_value)
RECURSIVE CountBelow(_, _)
CountBelow(vals, t) ==
    IF vals = <<>> THEN 0
    ELSE (IF NumLt(Head(vals), t) THEN 1 ELSE 0) + CountBelow(Tail(vals), t)

\* sum(1 for v in sorted_values if v == target_value)
RECURSIVE CountEqual(_, _)
CountEqual(vals, t) ==
    IF vals = <<>> THEN 0
    ELSE (IF NumEq(Head(vals), t) THEN 1 ELSE 0) + CountEqual(Tail(vals), t)

\* sum(1 for v in values_list if v <= target_value)
RECURSIVE CountLessEqual(_, _)
CountLessEqual(vals, t) ==
    IF vals = <<>> THEN 0
    ELSE (IF NumLeq(Head(vals), t) THEN 1 ELSE 0) + CountLessEqual(Tail(vals), t)

\* Variant: ties count as values below the target (the <= count of percentile_rank).
calculate_percentile_rank_ties_below(vals, t) ==
    IF vals = <<>> THEN Rat(50, 1)
    ELSE Rat(100 * CountLessEqual(vals, t), Len(vals))

\* Variant: ties are not counted at all.
calculate_percentile_rank_no_ties(vals, t) ==
    IF vals = <<>> THEN Rat(50, 1)
    ELSE Rat(100 * CountBelow(vals, t), Len(vals))

\* calculate_percentile_rank of the Percentiles tab (and, with the same body, of
\* the Dashboard2 tab).
calculate_percentile_rank(vals, t) ==
    IF vals = <<>> THEN Rat(50, 1)
    ELSE LET sorted_values == Sorted(vals)
             count_below == CountBelow(sorted_values, t)
             count_equal == CountEqual(sorted_values, t)
             total_count == Len(sorted_values)
         IN IF total_count = 0 THEN Rat(50, 1)
            ELSE RMax(Rat(0, 1),
                      RMin(Rat(100, 1),
                           Rat((2 * count_below + count_equal) * 100, 2 * total_count)))

\* percentile_rank of the Dashboard tab.
percentile_rank(values_list, t) ==
    IF values_list = <<>> THEN Rat(0, 1)
    ELSE Rat(100 * CountLessEqual(values_list, t), Len(values_list))

\* ------------------------------------------------------------------------
\* Per-96 values and group ratings (Percentiles and Dashboard2 tabs)
\* ------------------------------------------------------------------------
RAdd(a, b) == Rat(a.num * b.den + b.num * a.den, a.den * b.den)
RMul(a, b) == Rat(a.num * b.num, a.den * b.den)

\* the 96.0 of "float(v) * (96.0 / minutes)"
Per96Basis == 96

\* the first two (label, key) items of the group 'Dribbelen' of backs_groups
Items == <<"takeons", "takeon_success_pct">>
MetricKeys == {Items[i] : i \in DOMAIN Items}

\* key.endswith('_pct') or key == 'air_duels_win_pct'
IsPct(key) == key \in {"takeon_success_pct", "air_duels_win_pct"}

\* Variant: minutes_played is used without the 1e-9 guard, so a player without
\* minutes gets 0.0.
value_per96_unguarded(pstats, key, per96) ==
    LET v == Whole(pstats[key])
    IN IF IsPct(key) THEN v
       ELSE IF per96
            THEN IF NumLt(Whole(0), pstats.minutes_played)
                 THEN NumMul(v, NumDiv(Whole(Per96Basis), pstats.minutes_played))
                 ELSE Whole(0)
            ELSE v

\* value_per96 of the Percentiles tab; per96 is the checkbox the closure reads.
value_per96(pstats, key, per96) ==
    LET v == Whole(pstats[key])
    IN IF IsPct(key) THEN v
       ELSE IF per96
            THEN LET minutes == NumMax(pstats.minutes_played, Epsilon)
                 IN IF NumLt(Whole(0), minutes)
                    THEN NumMul(v, NumDiv(Whole(Per96Basis), minutes))
                    ELSE Whole(0)
            ELSE v

\* get_value_per96 (shared helper, used by the Dashboard2 tab)
get_value_per96(pstats, key) ==
    LET value == Whole(pstats[key])
        minutes == NumMax(pstats.minutes_played, Epsilon)
    IN IF NumLt(Whole(0), minutes)
       THEN NumMul(value, NumDiv(Whole(Per96Basis), minutes))
       ELSE Whole(0)

\* The per-96 conversion of calculate_match_stats (lines 1352-1355) for one key;
\* minutes is match_stats['minutes_played'].
match_stats_per96(match_stats, key) ==
    LET minutes == match_stats.minutes_played
    IN IF key # "minutes_played" /\ key # "takeon_success_pct" /\ key # "air_duels_win_pct"
       THEN IF NumLt(Whole(0), minutes)
            THEN NumMul(Whole(match_stats[key]), NumDiv(Whole(Per96Basis), minutes))
            ELSE Whole(0)
       ELSE Whole(match_stats[key])

\* max(0.0, min(100.0, x))
Clamp(x) == RMax(Rat(0, 1), RMin(Rat(100, 1), x))

\* sum(...) of a list of ratios, from 0
RECURSIVE RSum(_)
RSum(s) == IF s = <<>> THEN Rat(0, 1) ELSE RAdd(RSum(SubSeq(s, 1, Len(s) - 1)), s[Len(s)])

\* sum(weights.values()); weights are in tenths, as the slider steps
RECURSIVE SumWeights(_, _)
SumWeights(weights, keys) ==
    IF keys = <<>> THEN 0 ELSE weights[Head(keys)] + SumWeights(weights, Tail(keys))

\* {k: (w / total_w if total_w > 0 else 0.0) for k, w in weights.items()}
NormWeights(weights) ==
    LET total_w == SumWeights(weights, Items)
    IN [k \in MetricKeys |-> IF total_w > 0 THEN Rat(weights[k], total_w) ELSE Rat(0, 1)]

\* the weights the rating of render_group_section is computed with (line 1811)
DefaultWeights == [k \in MetricKeys |-> 10]

\* rating_value of render_group_section (lines 1815-1824)
GroupRating(distributions, sel_stats, per96, norm_weights) ==
    LET parts == [i \in DOMAIN Items |->
                    RMul(calculate_percentile_rank(distributions[Items[i]],
                                                   value_per96(sel_stats, Items[i], per96)),
                         norm_weights[Items[i]])]
    IN Clamp(RSum(parts))

\* group_rating of the Dashboard2 tab (lines 1994-2017)
Dashboard2GroupRating(players, stats) ==
    LET distributions == [k \in MetricKeys |->
                            [i \in DOMAIN players |-> get_value_per96(players[i], k)]]
        pcts == [i \in DOMAIN Items |->
                    calculate_percentile_rank(distributions[Items[i]],
                                              get_value_per96(stats, Items[i]))]
        group_total == RSum(pcts)
        group_count == Len(Items)
    IN Clamp(IF group_count > 0 THEN RMul(group_total, Rat(1, group_count))
             ELSE Rat(50, 1))

\* ------------------------------------------------------------------------
\* find_shot_events and the shot totals of player_stats
\* ------------------------------------------------------------------------
\* a key the event's dict does not hold (None is a key holding null)
Absent == -2

\* an event as find_shot_events reads it; metrics is "absent", "null" or "dict",
\* xG is the entry of the metrics dict, in hundredths
ShotEv(name, pl, m, x, t) ==
    [baseTypeName |-> name, playerName |-> pl, metrics |-> m, xG |-> x, startTimeMs |-> t]

\* 'shot' in str(event.get('baseTypeName', '')).lower()
IsShot(event) == event.baseTypeName = "SHOT"

\* event.get('metrics', {}).get(...) raises AttributeError when metrics is null
MetricsRaises(event) == event.metrics = "null"

\* event.get('metrics', {}).get('xG', 0.0)
ShotXG(event) ==
    IF event.metrics = "absent" \/ event.xG = Absent THEN 0 ELSE event.xG

\* int((event.get('startTimeMs', 0) or 0) / 1000 / 60)
ShotTime(event) ==
    IF event.startTimeMs \in {Absent, None} THEN 0 ELSE event.startTimeMs \div MsPerMinute

\* find_shot_events: the shot_info list, and the exception that ends the call
RECURSIVE find_shot_events(_)
find_shot_events(shot_input) ==
    IF shot_input = <<>> THEN [shot_events |-> <<>>, raised |-> ""]
    ELSE LET event == Head(shot_input)
             rest == find_shot_events(Tail(shot_input))
         IN IF ~IsShot(event) THEN rest
            ELSE IF MetricsRaises(event)
            THEN [shot_events |-> <<>>, raised |-> "AttributeError"]
            ELSE IF rest.raised # "" THEN rest
            ELSE [shot_events |->
                     <<[player |-> event.playerName, xG |-> ShotXG(event),
                        time |-> ShotTime(event)]>> \o rest.shot_events,
                  raised |-> ""]

\* ------------------------------------------------------------------------
\* Metric Classifier and Windowed Aggregator (specification sections 4.3 and 4.4)
\* ------------------------------------------------------------------------
\* the fixed weights of the rule table; the values are a configuration
Weight == [GOAL |-> 8, XG_MULTIPLIER |-> 2, KEY_PASS |-> 5, RECOVERY |-> 3]

\* the backward-looking window (5 minutes) and the samples per minute (step 0.5)
WindowMinutes == 5
SamplesPerMinute == 2
\* a red card this close to the match start or end does not split the match
CardMarginMinutes == 5

\* the time range of a half: (0, 45) and (45, 90)
HalfStart(half) == IF half = 1 THEN 0 ELSE 45
HalfEnd(half) == IF half = 1 THEN 45 ELSE 90

Opposing(team) == IF team = "H" THEN "A" ELSE "H"

Contribution(team, half, minute, value, category, kind) ==
    [team |-> team, half |-> half, minute |-> minute, value |-> value,
     category |-> category, kind |-> kind]

NoOutput == [contributions |-> <<>>, goals |-> <<>>, cards |-> <<>>]

\* Variant: an own goal is credited to the team that committed it.
ClassifyOwnGoalToActor(event) ==
    [NoOutput EXCEPT
        !.contributions = <<Contribution(event.team, event.half, event.minute,
                                         Weight.GOAL, "domination", "own_goal")>>,
        !.goals = <<[team |-> event.team, minute |-> event.minute]>>]

\* Own goal: GOAL weight, credited to the opposing team, and so is the goal record.
ClassifyOwnGoal(event) ==
    [NoOutput EXCEPT
        !.contributions = <<Contribution(Opposing(event.team), event.half, event.minute,
                                         Weight.GOAL, "domination", "own_goal")>>,
        !.goals = <<[team |-> Opposing(event.team), minute |-> event.minute]>>]

\* The rule table, for the event kinds of the model.
Classify(event) ==
    CASE event.kind = "goal" ->
            [NoOutput EXCEPT
                !.contributions =
                    <<Contribution(event.team, event.half, event.minute,
                                   Weight.GOAL + event.xG * Weight.XG_MULTIPLIER,
                                   "domination", "goal")>>,
                !.goals = <<[team |-> event.team, minute |-> event.minute]>>]
      [] event.kind = "own_goal" -> ClassifyOwnGoal(event)
      [] event.kind = "key_pass" ->
            [NoOutput EXCEPT
                !.contributions =
                    <<Contribution(event.team, event.half, event.minute,
                                   Weight.KEY_PASS, "control", "key_pass")>>]
      [] event.kind = "recovery" ->
            [NoOutput EXCEPT
                !.contributions =
                    <<Contribution(event.team, event.half, event.minute,
                                   Weight.RECOVERY, "control", "recovery")>>]
      [] event.kind = "red_card" -> [NoOutput EXCEPT !.cards = <<event.minute>>]
      [] OTHER -> NoOutput

\* sum of the contributions of a team and category whose minute lies in [lo, hi]
\* (lo and hi in samples)
RECURSIVE WindowSum(_, _, _, _, _)
WindowSum(contribs, team, category, lo, hi) ==
    IF contribs = <<>> THEN 0
    ELSE LET c == Head(contribs)
             at == c.minute * SamplesPerMinute
         IN (IF c.team = team /\ c.category = category /\ lo <= at /\ at <= hi
             THEN c.value ELSE 0)
            + WindowSum(Tail(contribs), team, category, lo, hi)

\* Variant: the window is open at its lower end.
NetValueOpenWindow(contribs, category, start, t) ==
    LET lo == IF start > t - WindowMinutes * SamplesPerMinute + 1 THEN start
              ELSE t - WindowMinutes * SamplesPerMinute + 1
    IN WindowSum(contribs, "H", category, lo, t) - WindowSum(contribs, "A", category, lo, t)

\* net value at sample t: home sum - away sum over [max(start, t - 5), t]
NetValue(contribs, category, start, t) ==
    LET lo == IF start > t - WindowMinutes * SamplesPerMinute THEN start
              ELSE t - WindowMinutes * SamplesPerMinute
    IN WindowSum(contribs, "H", category, lo, t) - WindowSum(contribs, "A", category, lo, t)

OfHalf(contribs, half) == SelectSeq(contribs, LAMBDA c : c.half = half)

\* the series of a half, one value per sample of [start, end]; empty when the half
\* has no contribution
Series(contribs, category, half) ==
    LET mine == OfHalf(contribs, half)
        start == HalfStart(half) * SamplesPerMinute
        end == HalfEnd(half) * SamplesPerMinute
    IN IF mine = <<>> THEN <<>>
       ELSE [i \in 1..(end - start + 1) |-> NetValue(mine, category, start, start + i - 1)]

\* total of a team and category over the contributions
RECURSIVE Total(_, _, _)
Total(contribs, team, category) ==
    IF contribs = <<>> THEN 0
    ELSE (IF Head(contribs).team = team /\ Head(contribs).category = category
          THEN Head(contribs).value ELSE 0)
         + Total(Tail(contribs), team, category)

\* Variant: the percentages are computed without the guard on an empty total.
PercentagesUnguarded(home_total, away_total) ==
    [home_total |-> home_total, away_total |-> away_total,
     home |-> Rat(100 * home_total, home_total + away_total),
     away |-> Rat(100 * away_total, home_total + away_total)]

\* home_total / (home_total + away_total) * 100 and its complement; 50/50 on 0
Percentages(home_total, away_total) ==
    IF home_total + away_total = 0
    THEN [home_total |-> home_total, away_total |-> away_total,
          home |-> Rat(50, 1), away |-> Rat(50, 1)]
    ELSE [home_total |-> home_total, away_total |-> away_total,
          home |-> Rat(100 * home_total, home_total + away_total),
          away |-> Rat(100 * (home_total + away_total) - 100 * home_total,
                       home_total + away_total)]

SegmentPercentages(contribs) ==
    [category \in {"control", "domination"} |->
        Percentages(Total(contribs, "H", category), Total(contribs, "A", category))]

\* the earliest red card; None when there is none
RECURSIVE Earliest(_)
Earliest(cards) ==
    IF cards = <<>> THEN None
    ELSE LET rest == Earliest(Tail(cards))
         IN IF rest = None \/ Head(cards) < rest THEN Head(cards) ELSE rest

Distance(a, b) == IF a < b THEN b - a ELSE a - b

\* Variant: the split point is reported without clamping.
SplitPointUnclamped(card, start, end) == Rat(100 * (card - start), end - start)

\* the proportional split point, clamped to [0, 100]
SplitPoint(card, start, end) == Clamp(Rat(100 * (card - start), end - start))

\* Whole-match split.  One segment without a red card, or when the earliest one is
\* within 5 minutes of the match start or end; else two segments cut at its minute
\* (a contribution of that very minute counts for the second segment).
WholeMatchSplit(contribs, cards, start, end) ==
    LET card == Earliest(cards)
    IN IF \/ card = None
          \/ Distance(card, start) <= CardMarginMinutes
          \/ Distance(card, end) <= CardMarginMinutes
       THEN [segments |-> <<SegmentPercentages(contribs)>>, split_point |-> Rat(100, 1)]
       ELSE [segments |->
                <<SegmentPercentages(SelectSeq(contribs, LAMBDA c : c.minute < card)),
                  SegmentPercentages(SelectSeq(contribs, LAMBDA c : c.minute >= card))>>,
             split_point |-> SplitPoint(card, start, end)]

\* ------------------------------------------------------------------------
\* State
\* ------------------------------------------------------------------------
VARIABLES
    all_events_data,    \* the loaded matches: a sequence of event lists
    pc,                 \* position of the batch computation
    match_i,            \* index of the match the loops of lines 593 and 503 are at
    \* locals of calculate_player_minutes
    period_starts, period_ends, substitutions, red_cards, all_players,
    player_name, part_id, player_entered, player_left, total_minutes, player_minutes,
    total_player_minutes,
    \* locals of calculate_primary_positions_across_matches
    position_and_period_events, event_i, current_player_position,
    player_position_durations_ms, primary_position_by_player,
    position_minutes_summary,
    \* percentile call: arguments and results
    values, target_value, percentile, dashboard_percentile,
    \* group ratings: the players of the position group, the selected player,
    \* the "Per 96 minutes" checkbox, and the locals of render_group_section
    group_players, selected_player_global, per96_checked, distributions_local, weights,
    norm_weights, percentiles, rating_value, group_rating,
    \* shot totals: the events, the result of find_shot_events, the loop of line 634,
    \* player_stats and the exception that ended the script, if any
    shot_input, all_shots, shot_i, player_stats, raised,
    \* classifier and aggregator: the match's events, the classifier's position and
    \* output, the series per half and the whole-match split
    match_events, classify_i, contributions, goals, cards, control_series,
    domination_series, match_split

minutesVars ==
    <<period_starts, period_ends, substitutions, red_cards, all_players, player_name,
      part_id, player_entered, player_left, total_minutes, player_minutes,
      total_player_minutes>>

trackerVars ==
    <<position_and_period_events, event_i, current_player_position,
      player_position_durations_ms, primary_position_by_player,
      position_minutes_summary>>

pctVars == <<values, target_value, percentile, dashboard_percentile>>

ratingVars ==
    <<group_players, selected_player_global, per96_checked, distributions_local, weights,
      norm_weights, percentiles, rating_value, group_rating>>

shotVars == <<shot_input, all_shots, shot_i, player_stats, raised>>

aggregatorVars ==
    <<match_events, classify_i, contributions, goals, cards, control_series,
      domination_series, match_split>>

derivedVars == <<ratingVars, shotVars, aggregatorVars>>

vars == <<all_events_data, pc, match_i, minutesVars, trackerVars, pctVars, derivedVars>>

\* ------------------------------------------------------------------------
\* Inputs
\* ------------------------------------------------------------------------
PlayerNames == {"A", "B"}

\* Events of the timeline reconstruction: period markers, substitutions, red cards.
MinutesUniverse ==
    {PeriodStartEv(1, 0), PeriodEndEv(1, Min(50)),
     PeriodStartEv(2, Min(50)), PeriodEndEv(2, Min(100))}
    \cup {SubInEv("A", part, Min(t)) : part \in Parts, t \in {20, 60}}
    \cup {SubOutEv("A", part, Min(t)) : part \in Parts, t \in {30, 70}}
    \cup {RedCardEv("A", 1501, 1, Min(25)), RedCardEv("A", 1502, 2, Min(65)),
          RedCardEv("A", 1502, 2, Min(80))}
    \cup {SubOutEv("B", 1, Min(30))}

\* Events of one match for the position tracker: position updates of two players,
\* period markers, substitutions, and a red card (which the tracker filters out).
MatchUniverse ==
    {PositionEv("A", 1800, "CB", 1, 0), PositionEv("A", 1801, "LW", 1, Min(20)),
     PositionEv("A", 1801, "LCB", 2, Min(80)), PositionEv("B", 1800, "CB", 1, 0),
     PeriodEndEv(1, Min(50)), PeriodStartEv(2, Min(60)), PeriodEndEv(2, Min(100)),
     SubOutEv("A", 1, Min(30)), SubInEv("B", 1, Min(30)),
     RedCardEv("A", 1501, 2, Min(70))}

\* Events of a season of several matches.
SeasonUniverse ==
    {PositionEv("A", 1800, "CB", 1, 0), PositionEv("A", 1801, "LW", 1, Min(20)),
     PeriodEndEv(1, Min(50)), SubOutEv("A", 1, Min(30))}

\* Mapped position names and durations for the duration dict of one player:
\* distinct keys in insertion order, positive durations.
PositionNames == {"CV", "LB", "LV", "SP", "CM"}

Durations == 1..3

\* m is a dict: no key twice.
IsPosMap(m) == \A i, j \in DOMAIN m : i # j => m[i].pos # m[j].pos

NoMinutesState ==
    /\ period_starts = NoPeriods
    /\ period_ends = NoPeriods
    /\ substitutions = [p \in PlayerNames |-> <<>>]
    /\ red_cards = [p \in PlayerNames |-> NoCard]
    /\ all_players = {}
    /\ player_name = ""
    /\ part_id = 0
    /\ player_entered = None
    /\ player_left = None
    /\ total_minutes = 0
    /\ player_minutes = [p \in PlayerNames |-> None]
    /\ total_player_minutes = [p \in PlayerNames |-> None]

NoTrackerState ==
    /\ position_and_period_events = <<>>
    /\ event_i = 0
    /\ current_player_position = [p \in PlayerNames |-> Untracked]
    /\ player_position_durations_ms = [p \in PlayerNames |-> <<>>]
    /\ primary_position_by_player = [p \in PlayerNames |-> ""]
    /\ position_minutes_summary = [p \in PlayerNames |-> Summary(<<>>)]

NoPctState ==
    /\ values = <<>>
    /\ target_value = Whole(0)
    /\ percentile = Rat(0, 1)
    /\ dashboard_percentile = Rat(0, 1)

NoRatingState ==
    /\ group_players = <<>>
    /\ selected_player_global = 0
    /\ per96_checked = FALSE
    /\ distributions_local = [k \in MetricKeys |-> <<>>]
    /\ weights = DefaultWeights
    /\ norm_weights = NormWeights(DefaultWeights)
    /\ percentiles = [k \in MetricKeys |-> Rat(0, 1)]
    /\ rating_value = Rat(0, 1)
    /\ group_rating = Rat(0, 1)

NoShotState ==
    /\ shot_input = <<>>
    /\ all_shots = <<>>
    /\ shot_i = 0
    /\ player_stats = [p \in PlayerNames |-> [xG |-> 0, shots |-> 0]]
    /\ raised = ""

NoAggregatorState ==
    /\ match_events = <<>>
    /\ classify_i = 0
    /\ contributions = <<>>
    /\ goals = <<>>
    /\ cards = <<>>
    /\ control_series = <<<<>>, <<>>>>
    /\ domination_series = <<<<>>, <<>>>>
    /\ match_split = WholeMatchSplit(<<>>, <<>>, HalfStart(1), HalfEnd(2))

NoDerivedState == NoRatingState /\ NoShotState /\ NoAggregatorState

\* Every way to cut an event list into consecutive matches of at least one event.
RECURSIVE Cuts(_)
Cuts(evs) ==
    IF evs = <<>> THEN {<<>>}
    ELSE UNION {{<<SubSeq(evs, 1, k)>> \o rest : rest \in Cuts(SubSeq(evs, k + 1, Len(evs)))} :
                    k \in 1..Len(evs)}

\* The seasons of one or more matches holding at most n events together.
SeasonsUpTo(n) == UNION {Cuts(evs) : evs \in SeqsUpTo(SeasonUniverse, n) \ {<<>>}}

StartOfRun ==
    /\ pc = "find_periods"
    /\ match_i = 1
    /\ NoMinutesState
    /\ NoTrackerState
    /\ NoPctState
    /\ NoDerivedState

\* One match.
Init ==
    /\ all_events_data \in {<<m>> : m \in SeqsUpTo(MatchUniverse, MaxEvents)}
    /\ StartOfRun

\* A season of several matches.
InitSeason ==
    /\ all_events_data \in SeasonsUpTo(MaxSeasonEvents)
    /\ StartOfRun

\* The position durations of a finished season, before the primary position is chosen.
InitSummary ==
    /\ all_events_data = <<>>
    /\ pc = "primary"
    /\ match_i = 1
    /\ NoMinutesState
    /\ position_and_period_events = <<>>
    /\ event_i = 0
    /\ current_player_position = [p \in PlayerNames |-> Untracked]
    /\ \E k \in 0..MaxPositions :
          \E m \in [1..k -> [pos : PositionNames, dur : Durations]] :
              /\ IsPosMap(m)
              /\ player_position_durations_ms =
                    [p \in PlayerNames |-> IF p = "A" THEN m ELSE <<>>]
    /\ primary_position_by_player = [p \in PlayerNames |-> ""]
    /\ position_minutes_summary = [p \in PlayerNames |-> Summary(<<>>)]
    /\ NoPctState
    /\ NoDerivedState

\* One match of timeline events.
InitMinutes ==
    /\ all_events_data \in {<<m>> : m \in SeqsUpTo(MinutesUniverse, MaxEvents)}
    /\ StartOfRun

InitPercentile ==
    /\ all_events_data = <<>>
    /\ pc = "percentile"
    /\ match_i = 1
    /\ NoMinutesState
    /\ NoTrackerState
    /\ values \in SeqsUpTo({Whole(v) : v \in 0..MaxValue}, MaxCohort)
    /\ target_value \in {Whole(v) : v \in 0..MaxValue}
    /\ percentile = Rat(0, 1)
    /\ dashboard_percentile = Rat(0, 1)
    /\ NoDerivedState

\* ------------------------------------------------------------------------
\* calculate_player_minutes, called for each match (lines 593-601)
\* ------------------------------------------------------------------------
events == all_events_data[match_i]

FindPeriods ==
    /\ pc = "find_periods"
    /\ period_starts' = FindPeriodTimes(events, 1400, NoPeriods)
    /\ period_ends' = FindPeriodTimes(events, 1401, NoPeriods)
    /\ pc' = "find_substitutions"
    /\ UNCHANGED <<all_events_data, match_i, substitutions, red_cards, all_players,
                   player_name, part_id, player_entered, player_left, total_minutes,
                   player_minutes, total_player_minutes, trackerVars, pctVars,
                   derivedVars>>

FindSubs ==
    /\ pc = "find_substitutions"
    /\ substitutions' = [p \in PlayerNames |-> FindSubstitutions(events, p)]
    /\ pc' = "find_red_cards"
    /\ UNCHANGED <<all_events_data, match_i, period_starts, period_ends, red_cards,
                   all_players, player_name, part_id, player_entered, player_left,
                   total_minutes, player_minutes, total_player_minutes, trackerVars,
                   pctVars,
                   derivedVars>>

FindRedCards ==
    /\ pc = "find_red_cards"
    /\ red_cards' = [p \in PlayerNames |-> FindRedCard(events, p, NoCard)]
    /\ all_players' = AllPlayers(events)
    /\ player_minutes' = [p \in PlayerNames |-> None]
    /\ pc' = "player_loop"
    /\ UNCHANGED <<all_events_data, match_i, period_starts, period_ends, substitutions,
                   player_name, part_id, player_entered, player_left, total_minutes,
                   total_player_minutes, trackerVars, pctVars,
                   derivedVars>>

\* for player_name in all_players: total_minutes = 0; player_subs.sort(...)
NextPlayer ==
    /\ pc = "player_loop"
    /\ \E p \in all_players :
        /\ player_name' = p
        /\ all_players' = all_players \ {p}
        /\ substitutions' = [substitutions EXCEPT ![p] = SortByTime(@)]
    /\ total_minutes' = 0
    /\ part_id' = 0
    /\ pc' = "part_loop"
    /\ UNCHANGED <<all_events_data, match_i, period_starts, period_ends, red_cards,
                   player_entered, player_left, player_minutes, total_player_minutes,
                   trackerVars, pctVars,
                   derivedVars>>

\* Body of `for part_id in [1, 2]` (lines 404-441).
PlayerPart ==
    /\ pc = "part_loop"
    /\ part_id < 2
    /\ LET part == part_id + 1
           period_start == PeriodStart(period_starts, part)
           period_end == PeriodEnd(period_ends, part)
           entered == PlayerEntered(substitutions[player_name], part, period_start)
           left == PlayerLeft(substitutions[player_name], red_cards[player_name],
                              part, entered, period_end)
       IN /\ part_id' = part
          /\ player_entered' = entered
          /\ player_left' = left
          /\ total_minutes' = total_minutes + Credit(entered, left)
    /\ UNCHANGED <<all_events_data, pc, match_i, period_starts, period_ends,
                   substitutions, red_cards, all_players, player_name, player_minutes,
                   total_player_minutes, trackerVars, pctVars,
                   derivedVars>>

\* player_minutes[player_name] = total_minutes
StorePlayer ==
    /\ pc = "part_loop"
    /\ part_id = 2
    /\ player_minutes' = [player_minutes EXCEPT ![player_name] = total_minutes]
    /\ pc' = "player_loop"
    /\ UNCHANGED <<all_events_data, match_i, period_starts, period_ends, substitutions,
                   red_cards, all_players, player_name, part_id, player_entered,
                   player_left, total_minutes, total_player_minutes, trackerVars,
                   pctVars,
                   derivedVars>>

\* return player_minutes; lines 598-601 add it to total_player_minutes.
MergeMinutes ==
    /\ pc = "player_loop"
    /\ all_players = {}
    /\ total_player_minutes' =
          [p \in PlayerNames |->
              IF player_minutes[p] = None THEN total_player_minutes[p]
              ELSE (IF total_player_minutes[p] = None THEN 0 ELSE total_player_minutes[p])
                   + player_minutes[p]]
    /\ IF match_i < Len(all_events_data)
       THEN match_i' = match_i + 1 /\ pc' = "find_periods"
       ELSE match_i' = 1 /\ pc' = "filter_sort"
    /\ UNCHANGED <<all_events_data, period_starts, period_ends, substitutions,
                   red_cards, all_players, player_name, part_id, player_entered,
                   player_left, total_minutes, player_minutes, trackerVars, pctVars,
                   derivedVars>>

NextMinutes ==
    \/ FindPeriods
    \/ FindSubs
    \/ FindRedCards
    \/ NextPlayer
    \/ PlayerPart
    \/ StorePlayer
    \/ MergeMinutes

SpecMinutes == InitMinutes /\ [][NextMinutes]_vars

\* One match of period starts and substitutions: the events that decide when a
\* player enters a half.
EntryUniverse ==
    {PeriodStartEv(1, 0), PeriodStartEv(2, Min(50)),
     SubInEv("A", 1, Min(20)), SubInEv("A", 1, Min(60)), SubInEv("A", 2, Min(60)),
     SubOutEv("A", 1, Min(30)), SubOutEv("B", 1, Min(30))}

InitEntry ==
    /\ all_events_data \in {<<m>> : m \in SeqsUpTo(EntryUniverse, MaxEvents)}
    /\ StartOfRun

SpecEntry == InitEntry /\ [][NextMinutes]_vars

\* ------------------------------------------------------------------------
\* calculate_primary_positions_across_matches (line 607)
\* ------------------------------------------------------------------------
\* Lines 504-516: filter, sort, fresh current_player_position.
FilterSort ==
    /\ pc = "filter_sort"
    /\ position_and_period_events' = SortEvents(FilterEvents(events))
    /\ current_player_position' = [p \in PlayerNames |-> Untracked]
    /\ event_i' = 1
    /\ pc' = "event_loop"
    /\ UNCHANGED <<all_events_data, match_i, minutesVars, player_position_durations_ms,
                   primary_position_by_player, position_minutes_summary, pctVars,
                   derivedVars>>

e == position_and_period_events[event_i]
event_time_ms == EventTimeMs(e)

InEventLoop ==
    /\ pc = "event_loop"
    /\ event_i <= Len(position_and_period_events)

EventDone ==
    /\ event_i' = event_i + 1
    /\ UNCHANGED <<all_events_data, pc, match_i, minutesVars,
                   position_and_period_events, primary_position_by_player,
                   position_minutes_summary, pctVars,
                   derivedVars>>

tracker == Tracker(current_player_position, player_position_durations_ms)

Becomes(st) ==
    /\ current_player_position' = st.cpp
    /\ player_position_durations_ms' = st.durs

\* Lines 523-539.
PositionUpdate ==
    /\ InEventLoop
    /\ IsPositionUpdate(e)
    /\ Becomes(OnPositionUpdate(tracker, e))
    /\ EventDone

\* Lines 541-545.
PeriodStartMarker ==
    /\ InEventLoop
    /\ e.baseTypeId = PERIOD_END_BASE_TYPE /\ e.subTypeId = PERIOD_START_SUBTYPE
    /\ Becomes(OnPeriodStart(tracker, e))
    /\ EventDone

\* Lines 547-555.
PeriodEndMarker ==
    /\ InEventLoop
    /\ e.baseTypeId = PERIOD_END_BASE_TYPE /\ e.subTypeId = PERIOD_END_SUBTYPE
    /\ Becomes(OnPeriodEnd(tracker, e))
    /\ EventDone

\* Lines 557-567.
SubOut ==
    /\ InEventLoop
    /\ e.baseTypeId = SUBSTITUTION_BASE_TYPE /\ e.subTypeId = SUB_OUT_SUBTYPE
    /\ Becomes(OnSubOut(tracker, e))
    /\ EventDone

\* A sub-in event passes the filter and matches none of the four handlers.
SubIn ==
    /\ InEventLoop
    /\ e.baseTypeId = SUBSTITUTION_BASE_TYPE /\ e.subTypeId = SUB_IN_SUBTYPE
    /\ UNCHANGED <<player_position_durations_ms, current_player_position>>
    /\ EventDone

\* Lines 569-577, then the next match of the loop of line 503.
CloseMatch ==
    /\ pc = "event_loop"
    /\ event_i > Len(position_and_period_events)
    /\ Becomes(OnMatchEnd(tracker, position_and_period_events))
    /\ IF match_i < Len(all_events_data)
       THEN match_i' = match_i + 1 /\ pc' = "filter_sort"
       ELSE match_i' = match_i /\ pc' = "primary"
    /\ UNCHANGED <<all_events_data, minutesVars, position_and_period_events, event_i,
                   primary_position_by_player, position_minutes_summary, pctVars,
                   derivedVars>>

\* Lines 579-587; a player without any duration has no key ("" here).
DeterminePrimary ==
    /\ pc = "primary"
    /\ primary_position_by_player' =
          [p \in PlayerNames |->
              IF player_position_durations_ms[p] = <<>> THEN ""
              ELSE PrimaryOf(player_position_durations_ms[p])]
    /\ pc' = "summarize"
    /\ UNCHANGED <<all_events_data, match_i, minutesVars, position_and_period_events,
                   event_i, current_player_position, player_position_durations_ms,
                   position_minutes_summary, pctVars,
                   derivedVars>>

\* Line 631: summarize_position_minutes(_position_duration_ms).
SummarizePositionMinutes ==
    /\ pc = "summarize"
    /\ position_minutes_summary' =
          [p \in PlayerNames |-> Summary(player_position_durations_ms[p])]
    /\ pc' = "done"
    /\ UNCHANGED <<all_events_data, match_i, minutesVars, position_and_period_events,
                   event_i, current_player_position, player_position_durations_ms,
                   primary_position_by_player, pctVars,
                   derivedVars>>

Next ==
    \/ FindPeriods
    \/ FindSubs
    \/ FindRedCards
    \/ NextPlayer
    \/ PlayerPart
    \/ StorePlayer
    \/ MergeMinutes
    \/ FilterSort
    \/ PositionUpdate
    \/ PeriodStartMarker
    \/ PeriodEndMarker
    \/ SubOut
    \/ SubIn
    \/ CloseMatch
    \/ DeterminePrimary
    \/ SummarizePositionMinutes

Spec == Init /\ [][Next]_vars

\* A season run; its matches hold position updates, period ends and sub-outs.
NextSeason ==
    \/ FindPeriods
    \/ FindSubs
    \/ FindRedCards
    \/ NextPlayer
    \/ PlayerPart
    \/ StorePlayer
    \/ MergeMinutes
    \/ FilterSort
    \/ PositionUpdate
    \/ PeriodEndMarker
    \/ SubOut
    \/ CloseMatch
    \/ DeterminePrimary
    \/ SummarizePositionMinutes

SpecSeason == InitSeason /\ [][NextSeason]_vars

\* calculate_player_minutes(events)[p]; None when p is not a key of the result.
MatchMinutes(evs, p) ==
    LET starts == FindPeriodTimes(evs, 1400, NoPeriods)
        ends == FindPeriodTimes(evs, 1401, NoPeriods)
        subs == SortByTime(FindSubstitutions(evs, p))
        card == FindRedCard(evs, p, NoCard)
        half(part) ==
            LET entered == PlayerEntered(subs, part, PeriodStart(starts, part))
            IN Credit(entered, PlayerLeft(subs, card, part, entered, PeriodEnd(ends, part)))
    IN IF p \in AllPlayers(evs) THEN half(1) + half(2) ELSE None

\* Events of one match for the position tracker alone: a position update of A,
\* position updates with a missing, blank, whitespace-only or placeholder player
\* name or position label, period markers, and a position update of A stamped
\* between the end of the first half and the start of the second.
TrackerUniverse ==
    {PositionEv("A", 1800, "CB", 1, 0),
     PositionEv("", 1801, "LW", 1, Min(20)), PositionEv(" ", 1801, "LW", 1, Min(20)),
     PositionEv("Unknown", 1801, "LW", 1, Min(20)),
     PositionEv("NOT_APPLICABLE", 1801, "LW", 1, Min(20)),
     PositionEv("A", 1801, "", 1, Min(20)), PositionEv("A", 1801, "UNKNOWN", 1, Min(20)),
     PeriodEndEv(1, Min(50)), PositionEv("A", 1801, "LW", 1, Min(55)),
     PeriodStartEv(2, Min(60))}

\* Line 607: calculate_player_minutes has returned for the match (lines 593-601),
\* its locals are gone and total_player_minutes holds its result.
MinutesReturned(match) ==
    /\ period_starts = NoPeriods
    /\ period_ends = NoPeriods
    /\ substitutions = [p \in PlayerNames |-> <<>>]
    /\ red_cards = [p \in PlayerNames |-> NoCard]
    /\ all_players = {}
    /\ player_name = ""
    /\ part_id = 0
    /\ player_entered = None
    /\ player_left = None
    /\ total_minutes = 0
    /\ player_minutes = [p \in PlayerNames |-> None]
    /\ total_player_minutes = [p \in PlayerNames |-> MatchMinutes(match, p)]

\* The call of calculate_primary_positions_across_matches on one match.
InitTracker ==
    /\ \E match \in SeqsUpTo(TrackerUniverse, MaxEvents) :
          /\ all_events_data = <<match>>
          /\ MinutesReturned(match)
    /\ pc = "filter_sort"
    /\ match_i = 1
    /\ NoTrackerState
    /\ NoPctState
    /\ NoDerivedState

NextTracker ==
    \/ FilterSort
    \/ PositionUpdate
    \/ PeriodStartMarker
    \/ PeriodEndMarker
    \/ CloseMatch
    \/ DeterminePrimary
    \/ SummarizePositionMinutes

SpecTracker == InitTracker /\ [][NextTracker]_vars

\* Matches of a season for the tracker's per-match state: a match that ends with
\* A's stint open, one that ends with it suspended, one without any event the
\* tracker keeps, one that is empty, and matches of period markers only.
CarryMatches ==
    {<<PositionEv("A", 1800, "CB", 1, Min(10))>>,
     <<PositionEv("A", 1800, "CB", 1, Min(10)), PeriodEndEv(1, Min(50))>>,
     <<RedCardEv("A", 1501, 2, Min(70))>>,
     <<>>,
     <<PeriodEndEv(1, Min(50))>>,
     <<PeriodStartEv(2, Min(60)), PeriodEndEv(2, Min(100))>>}

\* A season of up to MaxMatches such matches.
InitCarry ==
    /\ all_events_data \in SeqsUpTo(CarryMatches, MaxMatches) \ {<<>>}
    /\ StartOfRun

NextCarry ==
    \/ FindPeriods
    \/ FindSubs
    \/ FindRedCards
    \/ NextPlayer
    \/ PlayerPart
    \/ StorePlayer
    \/ MergeMinutes
    \/ FilterSort
    \/ PositionUpdate
    \/ PeriodStartMarker
    \/ PeriodEndMarker
    \/ CloseMatch
    \/ DeterminePrimary
    \/ SummarizePositionMinutes

SpecCarry == InitCarry /\ [][NextCarry]_vars

\* The choice of primary and secondary positions from given durations.
NextSummary ==
    \/ DeterminePrimary
    \/ SummarizePositionMinutes

SpecSummary == InitSummary /\ [][NextSummary]_vars

\* ------------------------------------------------------------------------
\* A percentile call of the Percentiles / Dashboard2 tab and of the Dashboard tab
\* ------------------------------------------------------------------------
CallPercentileRank ==
    /\ pc = "percentile"
    /\ percentile' = calculate_percentile_rank(values, target_value)
    /\ pc' = "dashboard_percentile"
    /\ UNCHANGED <<all_events_data, match_i, minutesVars, trackerVars, values,
                   target_value, dashboard_percentile, derivedVars>>

CallDashboardPercentileRank ==
    /\ pc = "dashboard_percentile"
    /\ dashboard_percentile' = percentile_rank(values, target_value)
    /\ pc' = "ranked"
    /\ UNCHANGED <<all_events_data, match_i, minutesVars, trackerVars, values,
                   target_value, percentile, derivedVars>>

NextPercentile ==
    \/ CallPercentileRank
    \/ CallDashboardPercentileRank

SpecPercentile == InitPercentile /\ [][NextPercentile]_vars

\* ------------------------------------------------------------------------
\* Group ratings of the Percentiles tab and of the Dashboard2 tab
\* ------------------------------------------------------------------------
\* minutes_played of a player: none, half the basis, the basis
MinutesPlayed == {Whole(0), Whole(48), Whole(96)}
StatValues == 0..1
PctValues == {0, 100}
\* st.slider(..., 0.0, 2.0, 1.0, 0.1), in tenths
SliderValues == {0, 10, 20}

PlayerStats ==
    [minutes_played : MinutesPlayed, takeons : StatValues, takeon_success_pct : PctValues]

InitRating ==
    /\ all_events_data = <<>>
    /\ pc = "render_group"
    /\ match_i = 1
    /\ NoMinutesState
    /\ NoTrackerState
    /\ NoPctState
    /\ \E n \in 1..MaxPlayers :
          /\ group_players \in [1..n -> PlayerStats]
          /\ selected_player_global \in 1..n
    /\ per96_checked \in BOOLEAN
    /\ distributions_local = [k \in MetricKeys |-> <<>>]
    /\ weights = DefaultWeights
    /\ norm_weights = NormWeights(DefaultWeights)
    /\ percentiles = [k \in MetricKeys |-> Rat(0, 1)]
    /\ rating_value = Rat(0, 1)
    /\ group_rating = Rat(0, 1)
    /\ NoShotState
    /\ NoAggregatorState

sel_stats == group_players[selected_player_global]

\* render_group_section (lines 1796-1852): the rating is computed with the weights of
\* line 1811, the sliders are read after it.
RenderGroupSection ==
    /\ pc = "render_group"
    /\ LET distributions == [k \in MetricKeys |->
                               [i \in DOMAIN group_players |->
                                   value_per96(group_players[i], k, per96_checked)]]
       IN /\ distributions_local' = distributions
          /\ rating_value' = GroupRating(distributions, sel_stats, per96_checked,
                                         NormWeights(DefaultWeights))
          /\ percentiles' = [k \in MetricKeys |->
                                calculate_percentile_rank(distributions[k],
                                    value_per96(sel_stats, k, per96_checked))]
    /\ \E slider \in [MetricKeys -> SliderValues] :
          /\ weights' = slider
          /\ norm_weights' = NormWeights(slider)
    /\ pc' = "dashboard2"
    /\ UNCHANGED <<all_events_data, match_i, minutesVars, trackerVars, pctVars,
                   group_players, selected_player_global, per96_checked, group_rating,
                   shotVars, aggregatorVars>>

\* group_scores of the Dashboard2 tab (lines 1989-2017)
Dashboard2GroupScores ==
    /\ pc = "dashboard2"
    /\ group_rating' = Dashboard2GroupRating(group_players, sel_stats)
    /\ pc' = "rated"
    /\ UNCHANGED <<all_events_data, match_i, minutesVars, trackerVars, pctVars,
                   group_players, selected_player_global, per96_checked,
                   distributions_local, weights, norm_weights, percentiles, rating_value,
                   shotVars, aggregatorVars>>

NextRating ==
    \/ RenderGroupSection
    \/ Dashboard2GroupScores

SpecRating == InitRating /\ [][NextRating]_vars

\* ------------------------------------------------------------------------
\* Shots: find_shot_events(all_events) and the loop "Process shots" (lines 634-664)
\* ------------------------------------------------------------------------
ShotUniverse ==
    {ShotEv("SHOT", "A", "dict", 30, Min(30)),
     ShotEv("SHOT", "A", "dict", Absent, Absent),
     ShotEv("SHOT", "A", "dict", None, None),
     ShotEv("SHOT", "A", "absent", Absent, Min(30)),
     ShotEv("SHOT", "A", "null", Absent, Min(30)),
     ShotEv("PASS", "A", "dict", 30, Min(30)),
     ShotEv("SHOT", "B", "dict", 20, None)}

InitShots ==
    /\ all_events_data = <<>>
    /\ pc = "find_shots"
    /\ match_i = 1
    /\ NoMinutesState
    /\ NoTrackerState
    /\ NoPctState
    /\ NoRatingState
    /\ shot_input \in SeqsUpTo(ShotUniverse, MaxEvents)
    /\ all_shots = <<>>
    /\ shot_i = 0
    /\ player_stats = [p \in PlayerNames |-> [xG |-> 0, shots |-> 0]]
    /\ raised = ""
    /\ NoAggregatorState

\* all_shots = find_shot_events(all_events)
FindShotEvents ==
    /\ pc = "find_shots"
    /\ LET found == find_shot_events(shot_input)
       IN /\ all_shots' = found.shot_events
          /\ raised' = found.raised
          /\ pc' = IF found.raised = "" THEN "process_shots" ELSE "crashed"
    /\ shot_i' = 1
    /\ UNCHANGED <<all_events_data, match_i, minutesVars, trackerVars, pctVars, ratingVars,
                   shot_input, player_stats, aggregatorVars>>

\* one iteration of "for shot in all_shots": xG += shot['xG'] raises TypeError on None
ProcessShot ==
    /\ pc = "process_shots"
    /\ shot_i <= Len(all_shots)
    /\ LET shot == all_shots[shot_i]
           stats == player_stats[shot.player]
       IN IF shot.xG = None
          THEN /\ raised' = "TypeError"
               /\ pc' = "crashed"
               /\ UNCHANGED <<player_stats, shot_i>>
          ELSE /\ player_stats' =
                     [player_stats EXCEPT ![shot.player] =
                         [xG |-> stats.xG + shot.xG, shots |-> stats.shots + 1]]
               /\ shot_i' = shot_i + 1
               /\ UNCHANGED <<raised, pc>>
    /\ UNCHANGED <<all_events_data, match_i, minutesVars, trackerVars, pctVars, ratingVars,
                   shot_input, all_shots, aggregatorVars>>

ShotsProcessed ==
    /\ pc = "process_shots"
    /\ shot_i > Len(all_shots)
    /\ pc' = "shots_done"
    /\ UNCHANGED <<all_events_data, match_i, minutesVars, trackerVars, pctVars, ratingVars,
                   shotVars, aggregatorVars>>

NextShots ==
    \/ FindShotEvents
    \/ ProcessShot
    \/ ShotsProcessed

SpecShots == InitShots /\ [][NextShots]_vars

\* ------------------------------------------------------------------------
\* classifyAndAggregate: classification, the series of both halves, the split
\* ------------------------------------------------------------------------
AggEv(kind, team, half, minute, xG) ==
    [kind |-> kind, team |-> team, half |-> half, minute |-> minute, xG |-> xG]

AggregatorUniverse ==
    {AggEv("key_pass", "H", 1, 10, 0),
     AggEv("recovery", "A", 1, 12, 0),
     AggEv("own_goal", "A", 1, 30, 0),
     AggEv("own_goal", "H", 2, 50, 0),
     AggEv("goal", "H", 1, 40, 1),
     AggEv("recovery", "H", 2, 75, 0),
     AggEv("red_card", "H", 1, 3, 0),
     AggEv("red_card", "A", 2, 70, 0),
     AggEv("red_card", "H", 2, 97, 0),
     AggEv("throw_in", "A", 2, 60, 0)}

InitAggregator ==
    /\ all_events_data = <<>>
    /\ pc = "classify"
    /\ match_i = 1
    /\ NoMinutesState
    /\ NoTrackerState
    /\ NoPctState
    /\ NoRatingState
    /\ NoShotState
    /\ match_events \in SeqsUpTo(AggregatorUniverse, MaxEvents)
    /\ classify_i = 1
    /\ contributions = <<>>
    /\ goals = <<>>
    /\ cards = <<>>
    /\ control_series = <<<<>>, <<>>>>
    /\ domination_series = <<<<>>, <<>>>>
    /\ match_split = WholeMatchSplit(<<>>, <<>>, HalfStart(1), HalfEnd(2))

\* the classifier takes the next event
ClassifyEvent ==
    /\ pc = "classify"
    /\ classify_i <= Len(match_events)
    /\ LET out == Classify(match_events[classify_i])
       IN /\ contributions' = contributions \o out.contributions
          /\ goals' = goals \o out.goals
          /\ cards' = cards \o out.cards
    /\ classify_i' = classify_i + 1
    /\ UNCHANGED <<all_events_data, pc, match_i, minutesVars, trackerVars, pctVars,
                   ratingVars, shotVars, match_events, control_series, domination_series,
                   match_split>>

\* the aggregator samples both halves
AggregateWindows ==
    /\ pc = "classify"
    /\ classify_i > Len(match_events)
    /\ control_series' = [half \in Parts |-> Series(contributions, "control", half)]
    /\ domination_series' = [half \in Parts |-> Series(contributions, "domination", half)]
    /\ pc' = "split"
    /\ UNCHANGED <<all_events_data, match_i, minutesVars, trackerVars, pctVars, ratingVars,
                   shotVars, match_events, classify_i, contributions, goals, cards,
                   match_split>>

\* the whole-match percentages
SplitMatch ==
    /\ pc = "split"
    /\ match_split' = WholeMatchSplit(contributions, cards, HalfStart(1), HalfEnd(2))
    /\ pc' = "aggregated"
    /\ UNCHANGED <<all_events_data, match_i, minutesVars, trackerVars, pctVars, ratingVars,
                   shotVars, match_events, classify_i, contributions, goals, cards,
                   control_series, domination_series>>

NextAggregator ==
    \/ ClassifyEvent
    \/ AggregateWindows
    \/ SplitMatch

SpecAggregator == InitAggregator /\ [][NextAggregator]_vars

\* ------------------------------------------------------------------------
\* Whole-match and whole-season results as functions of the input
\* ------------------------------------------------------------------------
\* One pass of the loop body of lines 503-577 over a match, from the durations durs.
RECURSIVE RunEvents(_, _)
RunEvents(st, evs) ==
    IF evs = <<>> THEN st ELSE RunEvents(OnEvent(st, Head(evs)), Tail(evs))

RunMatch(durs, evs) ==
    LET filtered == SortEvents(FilterEvents(evs))
    IN OnMatchEnd(RunEvents(Tracker([p \in PlayerNames |-> Untracked], durs), filtered),
                  filtered).durs

NoDurations == [p \in PlayerNames |-> <<>>]

\* player_position_durations_ms after the matches of a season, in the given order.
RECURSIVE RunSeason(_, _)
RunSeason(durs, season) ==
    IF season = <<>> THEN durs
    ELSE RunSeason(RunMatch(durs, Head(season)), Tail(season))

\* ------------------------------------------------------------------------
\* Properties
\* ------------------------------------------------------------------------
Reverse(s) == [i \in DOMAIN s |-> s[Len(s) + 1 - i]]

Keys(pos_map) == {pos_map[i].pos : i \in DOMAIN pos_map}

DurOf(pos_map, pos) ==
    IF pos \in Keys(pos_map)
    THEN pos_map[CHOOSE i \in DOMAIN pos_map : pos_map[i].pos = pos].dur
    ELSE 0

RECURSIVE SumDur(_)
SumDur(pos_map) == IF pos_map = <<>> THEN 0 ELSE Head(pos_map).dur + SumDur(Tail(pos_map))

HalfProcessed == pc = "part_loop" /\ part_id \in Parts

\* C1: the playing time credited to a player for a half is at most
\* period_end - period_start of that half, whatever the timestamps of the
\* player's substitution and red-card events are.
C1_HalfCreditWithinPeriod ==
    HalfProcessed =>
        Credit(player_entered, player_left)
            <= PeriodEnd(period_ends, part_id) - PeriodStart(period_starts, part_id)

\* C2: at the end of the run, the position-stint durations of every player sum to
\* at most the player's playing time plus one second (1000 ms).
C2_StintsWithinMinutes ==
    pc = "done" =>
        \A p \in PlayerNames :
            SumDur(player_position_durations_ms[p])
                <= (IF total_player_minutes[p] = None THEN 0 ELSE total_player_minutes[p])
                   + 1000

Ranked == pc = "ranked"

Below == {i \in DOMAIN values : NumLt(values[i], target_value)}
Equal == {i \in DOMAIN values : NumEq(values[i], target_value)}

\* C3: on a non-empty cohort calculate_percentile_rank returns
\* (values strictly below + 0.5 * values equal) / cohort size * 100, within [0, 100].
C3_PercentileFormula ==
    (Ranked /\ values # <<>>) =>
        /\ REq(percentile,
               Rat((2 * Cardinality(Below) + Cardinality(Equal)) * 100, 2 * Len(values)))
        /\ RLeq(Rat(0, 1), percentile)
        /\ RLeq(percentile, Rat(100, 1))

C3_Witness ==
    /\ Ranked
    /\ Len(values) = 3
    /\ Cardinality(Below) = 1
    /\ Cardinality(Equal) = 1

\* C4: on an empty cohort every percentile helper, the Dashboard tab's
\* percentile_rank included, returns exactly 50.
C4_EmptyCohortNeutral ==
    (Ranked /\ values = <<>>) =>
        /\ REq(percentile, Rat(50, 1))
        /\ REq(dashboard_percentile, Rat(50, 1))

AllTied == values # <<>> /\ \A i \in DOMAIN values : NumEq(values[i], target_value)

\* C5: when every value of a non-empty cohort equals the target, the percentile
\* is exactly 50.
C5_AllTiedIsFifty == (Ranked /\ AllTied) => REq(percentile, Rat(50, 1))

C5_Witness == Ranked /\ AllTied /\ Len(values) = 3

DistinctMinimum ==
    /\ values # <<>>
    /\ \A i, j \in DOMAIN values : i # j => ~NumEq(values[i], values[j])
    /\ \E i \in DOMAIN values : NumEq(values[i], target_value)
    /\ \A i \in DOMAIN values : NumLeq(target_value, values[i])

\* C6: the percentile of the minimum of N pairwise distinct values is
\* 0.5 * 100 / N, and so never 0.
C6_MinimumOfDistinct ==
    (Ranked /\ DistinctMinimum) =>
        /\ REq(percentile, Rat(50, Len(values)))
        /\ ~REq(percentile, Rat(0, 1))

C6_Witness == Ranked /\ DistinctMinimum /\ Len(values) = 3

\* C7: a player who has no event in a half is credited nothing for that half.
C7_NoEventsNoCredit ==
    (HalfProcessed
     /\ \A i \in DOMAIN events :
           events[i].playerName = player_name => events[i].partId # part_id)
        => Credit(player_entered, player_left) = 0

\* The events of the running match that the tracker has processed so far.
Processed == 1..(event_i - 1)

IsSubOutOf(ev, p) ==
    ev.baseTypeId = SUBSTITUTION_BASE_TYPE /\ ev.subTypeId = SUB_OUT_SUBTYPE
    /\ ev.playerName = p

SubOutProcessed(p) ==
    /\ pc = "event_loop"
    /\ \E j \in Processed : IsSubOutOf(position_and_period_events[j], p)

\* A valid position update naming p was processed after p's last processed sub-out.
Retracked(p) ==
    \E k \in Processed :
        /\ IsPositionUpdate(position_and_period_events[k])
        /\ ValidPositionUpdate(position_and_period_events[k])
        /\ position_and_period_events[k].playerName = p
        /\ \A j \in Processed : IsSubOutOf(position_and_period_events[j], p) => j < k

\* C8 as stated: once a sub-out of P has been processed, nothing more is
\* accumulated for P in the rest of the match, whatever events follow.
C8_NoAccumulationAfterSubOut ==
    [][\A p \in PlayerNames :
          SubOutProcessed(p) =>
              player_position_durations_ms'[p] = player_position_durations_ms[p]]_vars

\* C8 as amended: once a sub-out of P has been processed, nothing more is
\* accumulated for P in the rest of the match as long as no valid position update
\* naming P has been processed after it.
C8_NoAccumulationUntilRetracked ==
    [][\A p \in PlayerNames :
          (SubOutProcessed(p) /\ ~Retracked(p)) =>
              player_position_durations_ms'[p] = player_position_durations_ms[p]]_vars

\* The sub-out closed a stint of A and a period end was processed after it.
C8_Witness ==
    /\ SubOutProcessed("A")
    /\ ~Retracked("A")
    /\ event_i >= 3
    /\ player_position_durations_ms["A"] # <<>>
    /\ LET last == position_and_period_events[event_i - 1]
       IN last.baseTypeId = PERIOD_END_BASE_TYPE /\ last.subTypeId = PERIOD_END_SUBTYPE

RankedPlayers == {p \in PlayerNames : player_position_durations_ms[p] # <<>>}

\* C9: the primary position has the maximal summed duration; the secondary
\* positions are the positions ranked 2nd and 3rd by summed duration, in that
\* order; the primary position is never among them, ties included.
C9_PrimaryAndSecondary ==
    pc = "done" =>
        \A p \in RankedPlayers :
            LET pos_map == player_position_durations_ms[p]
                primary == primary_position_by_player[p]
                secondary == position_minutes_summary[p].secondary_positions
                ranked == <<primary>> \o secondary
                D(q) == DurOf(pos_map, q)
            IN /\ primary \in Keys(pos_map)
               /\ \A q \in Keys(pos_map) : D(q) <= D(primary)
               /\ Len(ranked) = (IF Len(pos_map) >= 3 THEN 3 ELSE Len(pos_map))
               /\ \A i \in DOMAIN ranked : ranked[i] \in Keys(pos_map)
               /\ \A i, j \in DOMAIN ranked : i # j => ranked[i] # ranked[j]
               /\ \A i, j \in DOMAIN ranked : i < j => D(ranked[i]) >= D(ranked[j])
               /\ \A q \in Keys(pos_map) :
                     (\A i \in DOMAIN ranked : ranked[i] # q)
                         => D(q) <= D(ranked[Len(ranked)])

\* Four positions, two of them tied for the longest duration.
C9_Witness ==
    /\ pc = "done"
    /\ LET pos_map == player_position_durations_ms["A"]
       IN /\ Len(pos_map) = 4
          /\ \E i, j \in DOMAIN pos_map :
                /\ i < j
                /\ pos_map[i].dur = pos_map[j].dur
                /\ \A k \in DOMAIN pos_map : pos_map[k].dur <= pos_map[i].dur

Matches == DOMAIN all_events_data

\* The durations of each match reconstructed on its own.
AloneDurations == [i \in Matches |-> RunMatch(NoDurations, all_events_data[i])]

AloneMinutes(i, p) ==
    IF MatchMinutes(all_events_data[i], p) = None THEN 0
    ELSE MatchMinutes(all_events_data[i], p)

\* C10: the season totals of minutes and of per-position duration are the sums of
\* the values of each match reconstructed on its own, they are the totals of the
\* season processed in the reverse order, and the primary position has the
\* largest summed duration.
C10_SeasonTotalsAreSums ==
    pc = "done" =>
        LET alone == AloneDurations
            reversed == RunSeason(NoDurations, Reverse(all_events_data))
        IN \A p \in PlayerNames :
              LET total == [pos \in PositionNames |->
                               SumSeq([i \in Matches |-> DurOf(alone[i][p], pos)])]
              IN /\ IF \E i \in Matches : MatchMinutes(all_events_data[i], p) # None
                    THEN total_player_minutes[p]
                           = SumSeq([i \in Matches |-> AloneMinutes(i, p)])
                    ELSE total_player_minutes[p] = None
                 /\ \A pos \in PositionNames :
                       /\ DurOf(player_position_durations_ms[p], pos) = total[pos]
                       /\ DurOf(player_position_durations_ms[p], pos)
                            = DurOf(reversed[p], pos)
                 /\ Keys(player_position_durations_ms[p]) \subseteq PositionNames
                 /\ p \in RankedPlayers =>
                       \A pos \in PositionNames :
                           total[pos] <= total[primary_position_by_player[p]]

\* Two matches give A durations, and the primary position of the season is not
\* the primary position of one of them.
C10_Witness ==
    /\ pc = "done"
    /\ \E i, j \in Matches :
          /\ i # j
          /\ RunMatch(NoDurations, all_events_data[i])["A"] # <<>>
          /\ RunMatch(NoDurations, all_events_data[j])["A"] # <<>>
          /\ PrimaryOf(RunMatch(NoDurations, all_events_data[j])["A"])
                # primary_position_by_player["A"]

\* ------------------------------------------------------------------------
\* Group ratings and per-96 values
\* ------------------------------------------------------------------------
Rated == pc = "rated"

InPercentRange(x) == RLeq(Rat(0, 1), x) /\ RLeq(x, Rat(100, 1))

\* the per-metric percentiles of the selected player, weighted by the slider weights
WeightedPercentiles ==
    [i \in DOMAIN Items |-> RMul(percentiles[Items[i]], Rat(weights[Items[i]], 1))]

\* the per-metric percentiles of the selected player on the Dashboard2 tab
Dashboard2Percentiles ==
    [i \in DOMAIN Items |->
        calculate_percentile_rank(
            [j \in DOMAIN group_players |-> get_value_per96(group_players[j], Items[i])],
            get_value_per96(sel_stats, Items[i]))]

\* C11: a group rating is the mean of the selected player's per-metric percentiles,
\* weighted by the weights the sliders supply (the plain arithmetic mean when they
\* are equal, and on the Dashboard2 tab), and always lies in [0, 100].
C11_CompositeIsWeightedMean ==
    Rated =>
        /\ InPercentRange(rating_value)
        /\ InPercentRange(group_rating)
        /\ REq(RMul(group_rating, Rat(Len(Items), 1)), RSum(Dashboard2Percentiles))
        /\ SumWeights(weights, Items) > 0 =>
              REq(RMul(rating_value, Rat(SumWeights(weights, Items), 1)),
                  RSum(WeightedPercentiles))

\* rawValue * 96 / max(minutesPlayed, epsilon) of player i for a counting metric
Normalized(i, key) ==
    NumDiv(Whole(group_players[i][key] * Per96Basis),
           NumMax(group_players[i].minutes_played, Epsilon))

NormalizedBelow(key) ==
    {i \in DOMAIN group_players :
        NumLt(Normalized(i, key), Normalized(selected_player_global, key))}
NormalizedEqual(key) ==
    {i \in DOMAIN group_players :
        NumEq(Normalized(i, key), Normalized(selected_player_global, key))}

\* C12: with "Per 96 minutes" checked, the value of a counting metric that enters the
\* distribution is rawValue * 96 / max(minutesPlayed, 1e-9): its divisor is never 0,
\* a player without minutes gets a value, and the selected player's percentile is
\* his rank among these normalized values.
C12_Per96Normalization ==
    (pc \in {"dashboard2", "rated"} /\ per96_checked) =>
        /\ \A i \in DOMAIN group_players :
              LET normalizedValue == distributions_local["takeons"][i]
              IN /\ normalizedValue.den > 0
                 /\ NumEq(NumMul(normalizedValue,
                                 NumMax(group_players[i].minutes_played, Epsilon)),
                          Whole(group_players[i].takeons * Per96Basis))
        /\ REq(percentiles["takeons"],
               Rat((2 * Cardinality(NormalizedBelow("takeons"))
                      + Cardinality(NormalizedEqual("takeons"))) * 100,
                   2 * Len(group_players)))

C12_Witness ==
    /\ Rated
    /\ per96_checked
    /\ Len(group_players) = 2
    /\ group_players[1].minutes_played = Whole(0)
    /\ group_players[1].takeons = 1
    /\ group_players[2].minutes_played = Whole(48)
    /\ group_players[2].takeons = 1
    /\ selected_player_global = 2
    /\ REq(percentiles["takeons"], Rat(25, 1))

\* ------------------------------------------------------------------------
\* Missing and null fields
\* ------------------------------------------------------------------------
\* the xG a shot of player p counts for: the value, 0 when absent or null
XGOrZero(event) ==
    IF event.metrics # "dict" \/ event.xG \in {Absent, None} THEN 0 ELSE event.xG

RECURSIVE ExpectedXG(_, _)
ExpectedXG(evs, p) ==
    IF evs = <<>> THEN 0
    ELSE (IF IsShot(Head(evs)) /\ Head(evs).playerName = p THEN XGOrZero(Head(evs)) ELSE 0)
         + ExpectedXG(Tail(evs), p)

ShotInputs == SelectSeq(shot_input, IsShot)

\* C13: no step raises on an event whose timestamp, metrics or xG is absent or null;
\* such a field counts as 0: the shot's minute is 0 and its xG adds 0.0.
C13_TotalOverMissingFields ==
    /\ raised = ""
    /\ pc # "crashed"
    /\ pc = "shots_done" =>
          /\ Len(all_shots) = Len(ShotInputs)
          /\ \A i \in DOMAIN all_shots :
                ShotInputs[i].startTimeMs \in {Absent, None} => all_shots[i].time = 0
          /\ \A p \in PlayerNames : player_stats[p].xG = ExpectedXG(shot_input, p)

\* ------------------------------------------------------------------------
\* Classifier and aggregator
\* ------------------------------------------------------------------------
Classified == pc \in {"split", "aggregated"}

OwnGoalsBy(team, minute) ==
    Cardinality({i \in DOMAIN match_events :
                    /\ match_events[i].kind = "own_goal"
                    /\ match_events[i].team = team
                    /\ match_events[i].minute = minute})

GoalsBy(team, minute) ==
    Cardinality({i \in DOMAIN match_events :
                    /\ match_events[i].kind = "goal"
                    /\ match_events[i].team = team
                    /\ match_events[i].minute = minute})

OwnGoalCredits(team, minute) ==
    {i \in DOMAIN contributions :
        /\ contributions[i].kind = "own_goal"
        /\ contributions[i].team = team
        /\ contributions[i].minute = minute}

GoalRecords(team, minute) ==
    {i \in DOMAIN goals : goals[i].team = team /\ goals[i].minute = minute}

EventMinutes == {match_events[i].minute : i \in DOMAIN match_events}

\* C14: every own goal of a team yields one domination contribution of GOAL weight
\* for the opposing team and none for the team itself, and its goal record names the
\* opposing team.
C14_OwnGoalCreditsOpponent ==
    Classified =>
        \A team \in {"H", "A"} : \A minute \in EventMinutes :
            /\ Cardinality(OwnGoalCredits(team, minute)) = OwnGoalsBy(Opposing(team), minute)
            /\ \A i \in OwnGoalCredits(team, minute) :
                  /\ contributions[i].value = Weight.GOAL
                  /\ contributions[i].category = "domination"
            /\ Cardinality(GoalRecords(team, minute))
                  = GoalsBy(team, minute) + OwnGoalsBy(Opposing(team), minute)

C14_Witness ==
    /\ Classified
    /\ OwnGoalsBy("A", 30) = 1
    /\ Cardinality(OwnGoalCredits("H", 30)) = 1
    /\ Cardinality(OwnGoalCredits("A", 30)) = 0
    /\ Cardinality(GoalRecords("H", 30)) = 1

Aggregated == pc = "aggregated"

SeriesOf(category) == IF category = "control" THEN control_series ELSE domination_series

\* the value a contribution adds at sample t of its half: + for home, - for away,
\* 0 outside the window [max(start, t - 5), t] or for another category
Signed(c, category, half, t) ==
    LET start == HalfStart(half) * SamplesPerMinute
        at == c.minute * SamplesPerMinute
    IN IF /\ c.half = half
          /\ c.category = category
          /\ at <= t
          /\ at >= start
          /\ at >= t - WindowMinutes * SamplesPerMinute
       THEN (IF c.team = "H" THEN c.value ELSE 0 - c.value)
       ELSE 0

\* C15: at every sample of a half the net value of a category is the home sum minus
\* the away sum of the contributions of that category within [max(start, t - 5), t].
C15_WindowedNetValue ==
    Aggregated =>
        \A category \in {"control", "domination"} : \A half \in Parts :
            \A i \in DOMAIN SeriesOf(category)[half] :
                LET t == HalfStart(half) * SamplesPerMinute + i - 1
                IN SeriesOf(category)[half][i]
                      = SumSeq([j \in DOMAIN contributions |->
                                   Signed(contributions[j], category, half, t)])

\* home value 5 at minute 10 and away value 3 at minute 12: net control 2 at minute 12,
\* 5 at minute 11, and -3 at minute 16
C15_Witness ==
    /\ Aggregated
    /\ Len(contributions) = 2
    /\ \E i, j \in DOMAIN contributions :
          /\ contributions[i] = Contribution("H", 1, 10, 5, "control", "key_pass")
          /\ contributions[j] = Contribution("A", 1, 12, 3, "control", "recovery")
    /\ control_series[1][12 * SamplesPerMinute + 1] = 2
    /\ control_series[1][11 * SamplesPerMinute + 1] = 5
    /\ control_series[1][16 * SamplesPerMinute + 1] = 0 - 3
    /\ control_series[2] = <<>>

SegmentResults ==
    {match_split.segments[i][category] :
        i \in DOMAIN match_split.segments, category \in {"control", "domination"}}

\* C16: a percentage pair over totals with sum 0 is exactly (50, 50) and nothing is
\* divided by 0; otherwise it is home_total / (home_total + away_total) * 100 and
\* its complement.
C16_PercentagesGuarded ==
    Aggregated =>
        \A r \in SegmentResults :
            /\ r.home.den > 0
            /\ r.away.den > 0
            /\ IF r.home_total + r.away_total = 0
               THEN r.home = Rat(50, 1) /\ r.away = Rat(50, 1)
               ELSE /\ REq(RMul(r.home, Rat(r.home_total + r.away_total, 1)),
                           Rat(100 * r.home_total, 1))
                    /\ REq(RAdd(r.home, r.away), Rat(100, 1))

C16_Witness ==
    /\ Aggregated
    /\ Len(match_split.segments) = 2
    /\ match_split.segments[1]["control"].home_total = 5
    /\ match_split.segments[1]["control"].away_total = 3
    /\ REq(match_split.segments[1]["control"].home, Rat(125, 2))
    /\ match_split.segments[2]["control"].home_total = 0
    /\ match_split.segments[2]["control"].away_total = 0
    /\ match_split.segments[2]["control"].home = Rat(50, 1)

CardMinutes == {cards[i] : i \in DOMAIN cards}
EarliestCard == CHOOSE m \in CardMinutes : \A n \in CardMinutes : m <= n
MatchStart == HalfStart(1)
MatchEnd == HalfEnd(2)

SingleSegment ==
    \/ CardMinutes = {}
    \/ Distance(EarliestCard, MatchStart) <= CardMarginMinutes
    \/ Distance(EarliestCard, MatchEnd) <= CardMarginMinutes

TotalsOf(segment, category) ==
    <<segment[category].home_total, segment[category].away_total>>

SegmentTotals(contribs, category) ==
    <<Total(contribs, "H", category), Total(contribs, "A", category)>>

BeforeCard == SelectSeq(contributions, LAMBDA c : c.minute < EarliestCard)
FromCard == SelectSeq(contributions, LAMBDA c : c.minute >= EarliestCard)

\* C17: the match is one segment without a red card or when the earliest one is
\* within 5 minutes of the match start or end; otherwise it is cut at the earliest
\* red card into two segments with their own totals, and the split point is
\* (card - start) / (end - start) * 100 brought into [0, 100].
C17_RedCardSplit ==
    Aggregated =>
        /\ InPercentRange(match_split.split_point)
        /\ IF SingleSegment
           THEN /\ Len(match_split.segments) = 1
                /\ \A category \in {"control", "domination"} :
                      TotalsOf(match_split.segments[1], category)
                         = SegmentTotals(contributions, category)
           ELSE /\ Len(match_split.segments) = 2
                /\ \A category \in {"control", "domination"} :
                      /\ TotalsOf(match_split.segments[1], category)
                            = SegmentTotals(BeforeCard, category)
                      /\ TotalsOf(match_split.segments[2], category)
                            = SegmentTotals(FromCard, category)
                /\ LET exact == Rat(100 * (EarliestCard - MatchStart), MatchEnd - MatchStart)
                   IN IF InPercentRange(exact)
                      THEN REq(match_split.split_point, exact)
                      ELSE REq(match_split.split_point, Rat(100, 1))

\* a red card at minute 70 of the 0-90 match: two segments, split point 700/9 = 77.8
C17_Witness ==
    /\ Aggregated
    /\ CardMinutes = {70}
    /\ Len(match_split.segments) = 2
    /\ REq(match_split.split_point, Rat(700, 9))
    /\ match_split.segments[1]["control"].home_total = 5
    /\ match_split.segments[2]["control"].home_total = 3

\* ------------------------------------------------------------------------
\* Entry and exit minute of a half
\* ------------------------------------------------------------------------
IsSubOutEvent(ev) == ev.baseTypeId = SUBSTITUTION_BASE_TYPE /\ ev.subTypeId = SUB_OUT_SUBTYPE
IsSubInEvent(ev) == ev.baseTypeId = SUBSTITUTION_BASE_TYPE /\ ev.subTypeId = SUB_IN_SUBTYPE
IsRedCardEvent(ev) == ev.baseTypeId = 15 /\ ev.subTypeId \in {1501, 1502}

\* the events of the running player in the running half
OwnEvents ==
    {i \in DOMAIN events :
        events[i].playerName = player_name /\ events[i].partId = part_id}

\* the sub-out and red-card minutes of the player in the half, after the entry
ExitMinutes ==
    {TimeMinutes(events[i]) :
        i \in {j \in OwnEvents :
                 /\ IsSubOutEvent(events[j]) \/ IsRedCardEvent(events[j])
                 /\ TimeMinutes(events[j]) > player_entered}}

Least(S) == CHOOSE m \in S : \A n \in S : m <= n

\* C18: the exit minute of a half is the earliest sub-out or red-card minute of the
\* player in that half after the entry, else the period end, also when the player
\* has several red-card or sub-out events.
C18_ExitIsEarliest ==
    HalfProcessed =>
        player_left = IF ExitMinutes = {} THEN PeriodEnd(period_ends, part_id)
                      ELSE Least(ExitMinutes)

\* the sub-in minutes of the player in the half
EntryMinutes ==
    {TimeMinutes(events[i]) : i \in {j \in OwnEvents : IsSubInEvent(events[j])}}

\* the minutes of the period-start markers of the half
StartMarkers ==
    {TimeMinutes(events[i]) :
        i \in {j \in DOMAIN events :
                 /\ events[j].baseTypeId = PERIOD_END_BASE_TYPE
                 /\ events[j].subTypeId = PERIOD_START_SUBTYPE
                 /\ events[j].partId = part_id}}

\* C19: the entry minute of a half is the earliest sub-in minute of the player in
\* that half, in whatever order the events come; without a sub-in it is the period
\* start: the marker's minute, or 0 for half 1 and 45 for half 2 without a marker.
C19_EntryIsEarliest ==
    HalfProcessed =>
        IF EntryMinutes # {} THEN player_entered = Least(EntryMinutes)
        ELSE IF StartMarkers # {} THEN player_entered \in StartMarkers
        ELSE player_entered = (IF part_id = 1 THEN 0 ELSE Min(45))

\* two sub-ins of the player in half 1, the later one first in the input
C19_Witness ==
    /\ HalfProcessed
    /\ part_id = 1
    /\ player_name = "A"
    /\ \E i, j \in DOMAIN events :
          /\ i < j
          /\ events[i] = SubInEv("A", 1, Min(60))
          /\ events[j] = SubInEv("A", 1, Min(20))
    /\ player_entered = Min(20)

\* ------------------------------------------------------------------------
\* Position update of a tracked player
\* ------------------------------------------------------------------------
\* the running event is a valid position update of a player with an open stint
UpdatesOpenStint ==
    /\ InEventLoop
    /\ IsPositionUpdate(e)
    /\ ValidPositionUpdate(e)
    /\ current_player_position[e.playerName].tracked
    /\ current_player_position[e.playerName].start_time # None

\* C20: a position update at time t of a tracked player P whose stint is open since s
\* adds t - s to the total of P's previous position when t - s > 0 and nothing
\* otherwise; P's stint becomes (new position, t); the totals and stints of the
\* other players, and P's totals of the other positions, stay as they are.
C20_PositionUpdateClosesStint ==
    [][(UpdatesOpenStint /\ event_i' = event_i + 1) =>
          LET P == e.playerName
              prev == current_player_position[P]
              duration == event_time_ms - prev.start_time
              before == player_position_durations_ms[P]
              after == player_position_durations_ms'[P]
          IN /\ \A pos \in Keys(before) \cup Keys(after) \cup {prev.position_name} :
                   DurOf(after, pos)
                      = DurOf(before, pos)
                        + (IF pos = prev.position_name /\ duration > 0 THEN duration ELSE 0)
             /\ duration <= 0 => after = before
             /\ current_player_position'[P]
                   = [tracked |-> TRUE,
                      position_name |-> map_position_to_nl(e.positionTypeName),
                      start_time |-> event_time_ms]
             /\ \A q \in PlayerNames \ {P} :
                   /\ player_position_durations_ms'[q] = player_position_durations_ms[q]
                   /\ current_player_position'[q] = current_player_position[q]]_vars

\* A moved from CV to LB at minute 20: 20 minutes for CV, the LB stint open since then
C20_Witness ==
    /\ pc = "event_loop"
    /\ event_i = 3
    /\ position_and_period_events[1] = PositionEv("A", 1800, "CB", 1, 0)
    /\ position_and_period_events[2] = PositionEv("A", 1801, "LW", 1, Min(20))
    /\ player_position_durations_ms["A"] = <<[pos |-> "CV", dur |-> Min(20)]>>
    /\ current_player_position["A"]
          = [tracked |-> TRUE, position_name |-> "LB", start_time |-> Min(20)]

\* ------------------------------------------------------------------------
\* Period markers
\* ------------------------------------------------------------------------
IsPeriodEndEvent(ev) ==
    ev.baseTypeId = PERIOD_END_BASE_TYPE /\ ev.subTypeId = PERIOD_END_SUBTYPE

IsPeriodStartEvent(ev) ==
    ev.baseTypeId = PERIOD_END_BASE_TYPE /\ ev.subTypeId = PERIOD_START_SUBTYPE

\* the running event is processed by this step
EventStep == InEventLoop /\ event_i' = event_i + 1

OpenStint(info) == info.tracked /\ info.start_time # None

SuspendedStint(info) == info.tracked /\ info.start_time = None

\* C21: a period end at time t adds t - s to the position of every stint open
\* since s < t and suspends it with its position kept; a period start at time t
\* gives the suspended stints the start t, leaves the open stints and the
\* untracked players as they are, and accumulates nothing.
C21_PeriodBoundaryCarriesPosition ==
    [][/\ (EventStep /\ IsPeriodEndEvent(e)) =>
             \A p \in PlayerNames :
                 LET info == current_player_position[p]
                     before == player_position_durations_ms[p]
                     after == player_position_durations_ms'[p]
                     duration == event_time_ms - info.start_time
                 IN IF OpenStint(info)
                    THEN /\ current_player_position'[p]
                               = [tracked |-> TRUE, position_name |-> info.position_name,
                                  start_time |-> None]
                         /\ \A pos \in Keys(before) \cup Keys(after) \cup {info.position_name} :
                               DurOf(after, pos)
                                  = DurOf(before, pos)
                                    + (IF pos = info.position_name /\ duration > 0
                                       THEN duration ELSE 0)
                    ELSE /\ current_player_position'[p] = info
                         /\ after = before
       /\ (EventStep /\ IsPeriodStartEvent(e)) =>
             \A p \in PlayerNames :
                 LET info == current_player_position[p]
                 IN /\ player_position_durations_ms'[p] = player_position_durations_ms[p]
                    /\ current_player_position'[p]
                          = (IF SuspendedStint(info)
                             THEN [tracked |-> TRUE, position_name |-> info.position_name,
                                   start_time |-> event_time_ms]
                             ELSE info)]_vars

\* A's CV stint was closed with 50 minutes at the period end and runs again, as
\* CV, from the period start at minute 60
C21_Witness ==
    /\ pc = "event_loop"
    /\ event_i = 4
    /\ position_and_period_events[1] = PositionEv("A", 1800, "CB", 1, 0)
    /\ IsPeriodEndEvent(position_and_period_events[2])
    /\ position_and_period_events[3] = PeriodStartEv(2, Min(60))
    /\ player_position_durations_ms["A"] = <<[pos |-> "CV", dur |-> Min(50)]>>
    /\ current_player_position["A"]
          = [tracked |-> TRUE, position_name |-> "CV", start_time |-> Min(60)]

\* ------------------------------------------------------------------------
\* End of a match
\* ------------------------------------------------------------------------
\* the step that leaves the event loop of the running match
MatchCloses ==
    /\ pc = "event_loop"
    /\ event_i > Len(position_and_period_events)
    /\ pc' # "event_loop"

\* the timestamps of the events of the running match that the tracker keeps
KeptTimes == {EventTimeMs(events[i]) : i \in {j \in DOMAIN events : Keep(events[j])}}

\* the timestamp of the last event of the filtered list sorted by time
FinalEventTime == CHOOSE t \in KeptTimes : \A u \in KeptTimes : u <= t

\* C22: at the end of a match a stint open since s adds final - s (when positive)
\* to its position, final being the timestamp of the last event of the filtered,
\* time-sorted list; a suspended stint and an untracked player add nothing; no
\* stint is open afterwards.
C22_MatchEndClosesOpenStints ==
    [][MatchCloses =>
          \A p \in PlayerNames :
              LET info == current_player_position[p]
                  before == player_position_durations_ms[p]
                  after == player_position_durations_ms'[p]
              IN /\ IF OpenStint(info)
                    THEN LET duration == FinalEventTime - info.start_time
                         IN \A pos \in Keys(before) \cup Keys(after) \cup {info.position_name} :
                               DurOf(after, pos)
                                  = DurOf(before, pos)
                                    + (IF pos = info.position_name /\ duration > 0
                                       THEN duration ELSE 0)
                    ELSE after = before
                 /\ ~OpenStint(current_player_position'[p])]_vars

\* A's LB stint, open since minute 20, was closed at minute 30, the time of the
\* last event (a sub-in of B)
C22_Witness ==
    /\ pc = "primary"
    /\ position_and_period_events
          = <<PositionEv("A", 1800, "CB", 1, 0), PositionEv("A", 1801, "LW", 1, Min(20)),
              SubInEv("B", 1, Min(30))>>
    /\ player_position_durations_ms["A"]
          = <<[pos |-> "CV", dur |-> Min(20)], [pos |-> "LB", dur |-> Min(10)]>>
    /\ \A p \in PlayerNames : ~current_player_position[p].tracked

\* ------------------------------------------------------------------------
\* Position updates that are ignored
\* ------------------------------------------------------------------------
\* the player name is missing, blank, whitespace-only or a placeholder
PlaceholderName(name) == name \in {"", " ", "  ", "Unknown", "NOT_APPLICABLE"}

\* the position label is missing or the placeholder
PlaceholderLabel(label) == label \in {"", "UNKNOWN"}

\* C23: a position update with a missing, blank, whitespace-only, 'Unknown' or
\* 'NOT_APPLICABLE' player name, or with a missing or 'UNKNOWN' position label,
\* changes neither the current stints nor any accumulated duration.
C23_PlaceholderUpdateIgnored ==
    [][(/\ EventStep
        /\ IsPositionUpdate(e)
        /\ (PlaceholderName(e.playerName) \/ PlaceholderLabel(e.positionTypeName)))
          => /\ current_player_position' = current_player_position
             /\ player_position_durations_ms' = player_position_durations_ms]_vars

\* A's CV stint is still open since minute 0 after a position update of A with
\* the label 'UNKNOWN' at minute 20
C23_Witness ==
    /\ pc = "event_loop"
    /\ event_i = 3
    /\ position_and_period_events[1] = PositionEv("A", 1800, "CB", 1, 0)
    /\ position_and_period_events[2] = PositionEv("A", 1801, "UNKNOWN", 1, Min(20))
    /\ current_player_position["A"]
          = [tracked |-> TRUE, position_name |-> "CV", start_time |-> 0]
    /\ player_position_durations_ms["A"] = <<>>

\* ------------------------------------------------------------------------
\* The break between the halves
\* ------------------------------------------------------------------------
\* the period markers of the filtered list
MarkerIndexes ==
    {i \in DOMAIN position_and_period_events : IsPeriodMarker(position_and_period_events[i])}

\* <<end, start>>: a period end and the period start that follows it
Breaks ==
    {<<EventTimeMs(position_and_period_events[i]), EventTimeMs(position_and_period_events[j])>> :
        <<i, j>> \in {ij \in MarkerIndexes \X MarkerIndexes :
                        /\ ij[1] < ij[2]
                        /\ IsPeriodEndEvent(position_and_period_events[ij[1]])
                        /\ IsPeriodStartEvent(position_and_period_events[ij[2]])
                        /\ \A k \in MarkerIndexes : ~(ij[1] < k /\ k < ij[2])}}

Least2(a, b) == IF a <= b THEN a ELSE b

Greatest2(a, b) == IF a >= b THEN a ELSE b

\* the length of the part of the stint [from, to] that lies in the break b
TimeInBreak(from, to, b) == Least2(to, b[2]) - Greatest2(from, b[1])

\* the time at which the running step closes stints
ClosingTime == IF MatchCloses THEN FinalEventTime ELSE event_time_ms

\* C24: whenever a duration is accumulated for a player, the stint it measures
\* holds no time of a break between a period end and the following period start.
C24_NoBreakTimeAccumulated ==
    [][(EventStep \/ MatchCloses) =>
          \A p \in PlayerNames :
              player_position_durations_ms'[p] # player_position_durations_ms[p] =>
                  \A b \in Breaks :
                      TimeInBreak(current_player_position[p].start_time, ClosingTime, b) <= 0]_vars

\* ------------------------------------------------------------------------
\* The percentile helpers against each other
\* ------------------------------------------------------------------------
\* C25: for the same cohort and target the Dashboard tab's percentile_rank
\* returns the value calculate_percentile_rank returns.
C25_HelpersAgree == Ranked => REq(dashboard_percentile, percentile)

\* ------------------------------------------------------------------------
\* The per-96 helpers against each other
\* ------------------------------------------------------------------------
\* C26: with "Per 96 minutes" checked, the value value_per96 put into the
\* distribution for a player and a metric key is the value get_value_per96
\* returns for them and, for a player with minutes, the value the conversion of
\* calculate_match_stats gives; for a percentage key it is the raw value.
C26_Per96HelpersAgree ==
    (Rated /\ per96_checked) =>
        \A key \in MetricKeys :
            \A i \in DOMAIN group_players :
                LET pstats == group_players[i]
                    value == distributions_local[key][i]
                IN /\ NumEq(get_value_per96(pstats, key), value)
                   /\ NumLt(Whole(0), pstats.minutes_played) =>
                         NumEq(match_stats_per96(pstats, key), value)
                   /\ IsPct(key) => NumEq(get_value_per96(pstats, key), Whole(pstats[key]))

\* ------------------------------------------------------------------------
\* The tracker's state from match to match
\* ------------------------------------------------------------------------
InTrackerLoop == pc \in {"filter_sort", "event_loop"}

\* p was named by a valid position update among the first n events of the list
NamedAmong(p, list, n) ==
    \E k \in 1..n :
        /\ k \in DOMAIN list
        /\ IsPositionUpdate(list[k])
        /\ ~PlaceholderName(list[k].playerName)
        /\ ~PlaceholderLabel(list[k].positionTypeName)
        /\ list[k].playerName = p

\* C27: between two matches and at the first event of a match nobody is tracked;
\* within a match a player is tracked only once a position update of that match
\* has named them; a duration is accumulated only for a stint opened by an event
\* of the running match, up to the timestamp of an event of the running match.
C27_TrackerStateIsPerMatch ==
    [][InTrackerLoop =>
          \A p \in PlayerNames :
              /\ (pc = "filter_sort" \/ event_i = 1) => ~current_player_position[p].tracked
              /\ (pc' = "event_loop" /\ current_player_position'[p].tracked) =>
                     NamedAmong(p, position_and_period_events', event_i' - 1)
              /\ player_position_durations_ms'[p] # player_position_durations_ms[p] =>
                     /\ NamedAmong(p, position_and_period_events, event_i - 1)
                     /\ current_player_position[p].start_time \in KeptTimes
                     /\ ClosingTime \in KeptTimes]_vars

\* A's stint was suspended at the end of the first match; the second match has no
\* event for the tracker; the period start and period end of the third match
\* were processed and A has the 40 minutes of the first match and no stint
C27_Witness ==
    /\ pc = "event_loop"
    /\ match_i = 3
    /\ event_i = 3
    /\ all_events_data
          = <<<<PositionEv("A", 1800, "CB", 1, Min(10)), PeriodEndEv(1, Min(50))>>,
              <<RedCardEv("A", 1501, 2, Min(70))>>,
              <<PeriodStartEv(2, Min(60)), PeriodEndEv(2, Min(100))>>>>
    /\ player_position_durations_ms["A"] = <<[pos |-> "CV", dur |-> Min(40)]>>
    /\ ~current_player_position["A"].tracked

\* ------------------------------------------------------------------------
\* The order of the input events
\* ------------------------------------------------------------------------
\* every reordering of the list s
Reorderings(s) ==
    {[i \in DOMAIN s |-> s[f[i]]] :
        f \in {g \in [DOMAIN s -> DOMAIN s] : \A i, j \in DOMAIN s : i # j => g[i] # g[j]}}

KeptIndexes == {i \in DOMAIN events : Keep(events[i])}

DistinctTimestamps ==
    \A i, j \in KeptIndexes : i # j => EventTimeMs(events[i]) # EventTimeMs(events[j])

\* the events of list s stamped t, in the order of s
StampedAt(s, t) == SelectSeq(s, LAMBDA ev : EventTimeMs(ev) = t)

\* C28: the list the tracker walks is ascending by timestamp and keeps, among
\* events with equal timestamps, the order of the input; when the kept events
\* have pairwise distinct timestamps, every reordering of the input gives the
\* position durations the run computed.
C28_InputOrderIrrelevant ==
    pc = "primary" =>
        /\ \A i, j \in DOMAIN position_and_period_events :
              i < j => EventTimeMs(position_and_period_events[i])
                         <= EventTimeMs(position_and_period_events[j])
        /\ \A t \in KeptTimes :
              StampedAt(position_and_period_events, t) = StampedAt(FilterEvents(events), t)
        /\ DistinctTimestamps =>
              \A reordered \in Reorderings(events) :
                  RunMatch(NoDurations, reordered) = player_position_durations_ms

\* the input lists the period end first and A's two position updates in reverse
\* order; A has 20 minutes as CV and 30 minutes as LB
C28_Witness ==
    /\ pc = "primary"
    /\ all_events_data
          = <<<<PeriodEndEv(1, Min(50)), PositionEv("A", 1801, "LW", 1, Min(20)),
                PositionEv("A", 1800, "CB", 1, 0)>>>>
    /\ player_position_durations_ms["A"]
          = <<[pos |-> "CV", dur |-> Min(20)], [pos |-> "LB", dur |-> Min(30)]>>

\* ------------------------------------------------------------------------
\* Order properties of the percentile
\* ------------------------------------------------------------------------
Targets == {Whole(v) : v \in 0..MaxValue}

IsMember == \E i \in DOMAIN values : NumEq(values[i], target_value)

\* C29: the percentile of the target is at most the percentile of every larger
\* target and at least the percentile of every smaller one; when the target is a
\* member of the cohort of size N, its percentile lies in [50/N, 100 - 50/N] and
\* so is neither 0 nor 100.
C29_MonotoneAndMemberBounds ==
    Ranked =>
        /\ \A other \in Targets :
              /\ NumLeq(target_value, other) =>
                    RLeq(percentile, calculate_percentile_rank(values, other))
              /\ NumLeq(other, target_value) =>
                    RLeq(calculate_percentile_rank(values, other), percentile)
        /\ IsMember =>
              /\ RLeq(Rat(50, Len(values)), percentile)
              /\ RLeq(percentile, Rat(100 * Len(values) - 50, Len(values)))
              /\ ~REq(percentile, Rat(0, 1))
              /\ ~REq(percentile, Rat(100, 1))

\* the target is the largest of three distinct values: 100 - 50/3
C29_Witness ==
    /\ Ranked
    /\ Len(values) = 3
    /\ IsMember
    /\ \A i \in DOMAIN values : NumLeq(values[i], target_value)
    /\ \A i, j \in DOMAIN values : i # j => ~NumEq(values[i], values[j])
    /\ REq(percentile, Rat(250, 3))

\* ------------------------------------------------------------------------
\* The percentiles of a whole cohort
\* ------------------------------------------------------------------------
\* the percentiles of the members of the cohort, each ranked against the cohort
MemberPercentiles(cohort) ==
    [i \in DOMAIN cohort |-> calculate_percentile_rank(cohort, cohort[i])]

====
